---- MODULE Spec2Model ----
(***************************************************************************)
(* Worker-pool ConversionQueue of the HEIC converter (utils/conversion-    *)
(* queue.js, "Enhanced Conversion Queue") together with the message        *)
(* protocol of the single-file and batch conversion workers.               *)
(*                                                                         *)
(* The main thread is a JavaScript event loop: every handler runs to        *)
(* completion, except that processQueue suspends at `await executeTask`     *)
(* after each dispatch and resumes as a microtask.  pqPending counts the    *)
(* suspended processQueue invocations; worker messages, worker errors and   *)
(* retry timers are macrotasks and run only when no microtask is pending.   *)
(* The workers run in their own threads and interleave freely.              *)
(*                                                                         *)
(* The progress tracker calls of the queue only update the tracker's own    *)
(* bookkeeping and are not part of this model.                              *)
(***************************************************************************)
EXTENDS Integers, Sequences, FiniteSets, TLC

\* ---------------------------------------------------------------- bounds
MaxTasks == 2
MaxPriority == 1
MaxCrashes == 1
MaxCancels == 1
MaxConcurrentOpt == 2
MaxWorkersOpt == 1
MaxDisturbances == 1
MaxBatchTasks == 1
MaxProgressTasks == 1
BatchFiles == 1
MaxUnhandled == 1
MaxConverts == 2
MaxBatches == 2
MaxFiles == 2
MaxBlobs == 4
MaxRegisters == 4
MaxWaitBlobs == 2
MaxWaitRegisters == 3
MaxURLs == 1
MB == 1048576
MaxConversions == 2
MaxItems == 1
maxWait == 30000
maxBatchFiles == 100
MaxTrackerCalls == 4
MaxTrackedFiles == 2
MaxOptionTasks == 2
MaxSimpleItems == 3
MaxDisposes == 1
MaxCalls == 2
MaxUncaught == 1
MaxRepeatedUncaught == 2
MaxMetricsUncaught == 3
MaxConfigures == 1
MaxChunkFiles == 2

\* Times in ms at which the progress interval of the decoding stage may fire.
ElapsedTimes == {100, 4000}

\* ------------------------------------------------------ program constants
maxRetries == 3
maxWorkerFailures == 3
defaultMaxWorkers == 4
initialWorkers == 2
defaultChunkSize == 5
defaultMaxConcurrent == 3

Min(a, b) == IF a < b THEN a ELSE b

Tasks == 1..MaxTasks
Priorities == 0..MaxPriority
MaxWorkerIds == 2 * defaultMaxWorkers + MaxTasks
WorkerIds == 1..MaxWorkerIds
NoTask == 0
NoWorker == 0
NoProgress == 0 - 1
TaskTypes == {"single", "batch"}
\* What worker.onerror hands to handleWorkerError: the browser delivers an
\* ErrorEvent, which is an Event.
ErrorArgs == {"Event"}

VARIABLES
    maxConcurrent,   \* this.maxConcurrent
    isPaused,        \* this.isPaused
    isDestroyed,     \* this.isDestroyed
    nextId,          \* number of task ids generated so far + 1
    ttype,           \* task.type          ("none" before submission)
    prio,            \* task.priority
    retries,         \* task.retries
    status,          \* task.status        ("none" | "queued" | "processing")
    queue,           \* this.queue         (sequence of task ids)
    active,          \* this.activeWorkers (task id -> worker id, NoWorker = absent)
    workerPool,      \* this.workerPool
    batchWorkerPool, \* this.batchWorkerPool
    wtype,           \* worker.metadata.type
    busy,            \* worker.metadata.busy
    taskId,          \* worker.metadata.taskId
    terminated,      \* worker.terminate() has been called
    timers,          \* pending retry timers per task (setTimeout of handleTaskError)
    pqPending,       \* processQueue invocations suspended at `await executeTask`
    inbox,           \* commands posted to each worker, not yet received
    outbox,          \* messages posted by each worker, not yet handled by the queue
    running,         \* worker side: files (task ids) of the conversions in progress
    wCancelled,      \* worker side: isCancelled / batchState.isCancelled
    evComplete,      \* number of 'complete' events emitted per task id
    evError,         \* number of 'error' events emitted per task id
    evCancelled,     \* number of 'cancelled' events emitted per task id
    dispatched,      \* number of convert commands posted per task id
    releasedIdle,    \* releaseWorker released a worker whose busy flag was clear
    assignedBusy,    \* executeTask was handed a worker whose busy flag was set
    crashes,         \* number of worker.onerror events raised so far
    cancels,         \* number of cancelTask / cancelAll calls made so far
    cancelledPending, \* tasks cancelled while they were in the pending queue
    cancelSent,      \* per task: the worker cancelTask sent a cancel command to and
                     \* from which the queue has handled nothing since
    evProgress,      \* percent of the last 'progress' event emitted per task id
    stage,           \* worker side: the await each conversion waits at
    teardownTimer,   \* the setTimeout of destroy(): idle, armed or fired
    eventHandlers,   \* this.eventHandlers: the events that have a handler
    workersFail,     \* environment: new Worker(...) throws from now on
    failedWorkerCreations, \* this.failedWorkerCreations
    creationFailures, \* number of new Worker(...) calls that threw
    evWorkerError,   \* number of emit('workerError') calls
    isMock,          \* worker.metadata.isMock
    totalTasksProcessed, \* metrics.totalTasksProcessed
    totalTasksFailed, \* metrics.totalTasksFailed
    maxWorkers,      \* options.maxWorkers, 4 by default
    uncaught,        \* number of self.onerror events raised in workers so far
    last,            \* the handler that ran last, with its inputs and result
    sw,              \* one single-file worker in detail: flag, conversions, messages
    bw,              \* one batch worker in detail: batchState, runs, messages
    mm,              \* the MemoryManager singleton (memoryManagerInstance)
    cp,              \* the ChunkedProcessor: activeOperations, processItem calls
    pt,              \* the ProgressTracker: its stats
    so,              \* task options and the commands composed from them
    sq               \* the simple priority ConversionQueue

vars == <<maxConcurrent, isPaused, isDestroyed, nextId, ttype, prio, retries,
          status, queue, active, workerPool, batchWorkerPool, wtype,
          busy, taskId, terminated, timers, pqPending, inbox, outbox, running,
          wCancelled, evComplete, evError, evCancelled, dispatched,
          releasedIdle, assignedBusy, cancels, cancelledPending,
          cancelSent, crashes, evProgress,
          stage,
          teardownTimer,
          eventHandlers, workersFail,
          failedWorkerCreations,
          creationFailures,
          evWorkerError,
          isMock,
          totalTasksProcessed,
          totalTasksFailed,
          maxWorkers,
          uncaught,
          last, sw, bw, mm, cp, pt, so, sq>>

\* The state of the queue object and of its workers as one record, so that
\* the methods compose as functions from state to state.
Cur ==
    [maxConcurrent |-> maxConcurrent, isPaused |-> isPaused,
     isDestroyed |-> isDestroyed, nextId |-> nextId, ttype |-> ttype,
     prio |-> prio, retries |-> retries, status |-> status, queue |-> queue,
     active |-> active, workerPool |-> workerPool,
     batchWorkerPool |-> batchWorkerPool, wtype |-> wtype,
     busy |-> busy, taskId |-> taskId, terminated |-> terminated,
     timers |-> timers, pqPending |-> pqPending, inbox |-> inbox,
     outbox |-> outbox, running |-> running, wCancelled |-> wCancelled,
     evComplete |-> evComplete, evError |-> evError,
     evCancelled |-> evCancelled, dispatched |-> dispatched,
     releasedIdle |-> releasedIdle, cancels |-> cancels,
     cancelledPending |-> cancelledPending, cancelSent |-> cancelSent,
     evProgress |-> evProgress,
     stage |-> stage,
     teardownTimer |-> teardownTimer,
     eventHandlers |-> eventHandlers,
     workersFail |-> workersFail,
     failedWorkerCreations |-> failedWorkerCreations,
     creationFailures |-> creationFailures,
     evWorkerError |-> evWorkerError,
     isMock |-> isMock,
     totalTasksProcessed |-> totalTasksProcessed,
     totalTasksFailed |-> totalTasksFailed,
     maxWorkers |-> maxWorkers,
     uncaught |-> uncaught,
     assignedBusy |-> assignedBusy, crashes |-> crashes]

\* ------------------------------------------------------------- sequences
RECURSIVE IndexOf(_, _, _)
IndexOf(seq, x, i) ==
    IF i > Len(seq) THEN 0
    ELSE IF seq[i] = x THEN i ELSE IndexOf(seq, x, i + 1)

RemoveAt(seq, i) ==
    [j \in 1..(Len(seq) - 1) |-> IF j < i THEN seq[j] ELSE seq[j + 1]]

InSeq(seq, x) == \E i \in 1..Len(seq) : seq[i] = x

\* queue.sort((a, b) => (b.priority || 0) - (a.priority || 0)): Array.prototype.sort
\* is stable, so tasks of equal priority keep their relative order.
RECURSIVE sortByPriority(_, _, _)
sortByPriority(q, pr, p) ==
    IF p < 0 THEN <<>>
    ELSE SelectSeq(q, LAMBDA t : pr[t] = p) \o sortByPriority(q, pr, p - 1)

\* ----------------------------------------------------------- worker pool
poolOf(s, type) == IF type = "batch" THEN s.batchWorkerPool ELSE s.workerPool

withPool(s, type, p) ==
    IF type = "batch" THEN [s EXCEPT !.batchWorkerPool = p]
    ELSE [s EXCEPT !.workerPool = p]

\* Worker objects are identified by numbers.  An object is in use while it is
\* in a pool or an entry of activeWorkers refers to it; a new worker takes
\* the smallest number not in use.
InUse(s, w) ==
    \/ InSeq(s.workerPool, w)
    \/ InSeq(s.batchWorkerPool, w)
    \/ \E t \in Tasks : s.active[t] = w

freshWorker(s) == CHOOSE w \in WorkerIds : ~InUse(s, w) /\ \A v \in 1..(w - 1) : InUse(s, v)

\* Whether createWorker(type) throws: on a destroyed queue, and when
\* new Worker(...) throws and fewer than maxWorkerFailures failures are counted.
createThrows(s) ==
    \/ s.isDestroyed
    \/ s.workersFail /\ s.failedWorkerCreations + 1 < maxWorkerFailures

\* createWorker: a fresh idle worker, appended to the pool of its type.  On a
\* destroyed queue it throws before it creates anything.  When new Worker(...)
\* throws, the failure is counted; from the maxWorkerFailures-th failure on a
\* mock worker takes the place of the worker, before that createWorker throws.
createWorker(s, type) ==
    LET w == freshWorker(s)
        s0 == IF s.workersFail
              THEN [s EXCEPT !.failedWorkerCreations = @ + 1,
                             !.creationFailures = @ + 1]
              ELSE s
        s1 == [s0 EXCEPT !.wtype[w] = type,
                        !.isMock[w] = s.workersFail,
                        !.busy[w] = FALSE,
                        !.taskId[w] = NoTask,
                        !.terminated[w] = FALSE,
                        !.inbox[w] = <<>>,
                        !.outbox[w] = <<>>,
                        !.running[w] = <<>>,
                        !.stage[w] = <<>>,
                        !.wCancelled[w] = FALSE]
    IN IF s.isDestroyed THEN s
       ELSE IF createThrows(s) THEN s0
       ELSE withPool(s1, type, Append(poolOf(s1, type), w))

\* A worker object that nothing refers to any more is dropped.
collect(s) ==
    LET dead == {w \in WorkerIds : ~InUse(s, w)}
    IN [s EXCEPT !.wtype = [w \in WorkerIds |-> IF w \in dead THEN "none" ELSE @[w]],
                 !.busy = [w \in WorkerIds |-> IF w \in dead THEN FALSE ELSE @[w]],
                 !.taskId = [w \in WorkerIds |-> IF w \in dead THEN NoTask ELSE @[w]],
                 !.terminated = [w \in WorkerIds |-> IF w \in dead THEN FALSE ELSE @[w]],
                 !.inbox = [w \in WorkerIds |-> IF w \in dead THEN <<>> ELSE @[w]],
                 !.outbox = [w \in WorkerIds |-> IF w \in dead THEN <<>> ELSE @[w]],
                 !.running = [w \in WorkerIds |-> IF w \in dead THEN <<>> ELSE @[w]],
                 !.stage = [w \in WorkerIds |-> IF w \in dead THEN <<>> ELSE @[w]],
                 !.wCancelled = [w \in WorkerIds |-> IF w \in dead THEN FALSE ELSE @[w]],
                 !.isMock = [w \in WorkerIds |-> IF w \in dead THEN FALSE ELSE @[w]]]

\* A search that takes the first worker of the pool whether it is busy or not.
findFirst(s, pool, i) ==
    IF i > Len(pool) THEN NoWorker ELSE pool[i]

RECURSIVE findIdle(_, _, _)
findIdle(s, pool, i) ==
    IF i > Len(pool) THEN NoWorker
    ELSE IF ~s.busy[pool[i]] THEN pool[i] ELSE findIdle(s, pool, i + 1)

\* getAvailableWorker: the first idle worker of the pool, else a new worker
\* while the pool is below maxWorkers, else nothing.  Returns state and worker,
\* and whether createWorker threw.
getAvailableWorker(s, type) ==
    LET pool == poolOf(s, type)
        w == findIdle(s, pool, 1)
    IN IF w # NoWorker THEN [s |-> s, w |-> w, thrown |-> FALSE]
       ELSE IF Len(pool) < s.maxWorkers
            THEN IF createThrows(s)
                 THEN [s |-> createWorker(s, type), w |-> NoWorker,
                       thrown |-> TRUE]
                 ELSE [s |-> createWorker(s, type), w |-> freshWorker(s),
                       thrown |-> FALSE]
            ELSE [s |-> s, w |-> NoWorker, thrown |-> FALSE]

\* releaseWorker(taskId)
releaseWorker(s, t) ==
    LET w == s.active[t]
    IN IF w # NoWorker
       THEN [s EXCEPT !.busy[w] = FALSE,
                      !.taskId[w] = NoTask,
                      !.active[t] = NoWorker,
                      !.cancelSent[t] = NoWorker,
                      !.releasedIdle = @ \/ ~s.busy[w]]
       ELSE s

\* worker.terminate(): the worker stops, nothing it posted or was sent is
\* delivered any more.  terminate() of a mock worker only logs.
terminate(s, w) ==
    IF s.isMock[w] THEN s
    ELSE [s EXCEPT !.terminated[w] = TRUE,
                   !.inbox[w] = <<>>,
                   !.outbox[w] = <<>>,
                   !.running[w] = <<>>,
                   !.stage[w] = <<>>]

\* replaceWorker(worker)
replaceWorker(s, w) ==
    LET type == s.wtype[w]
        pool == poolOf(s, type)
        index == IndexOf(pool, w, 1)
    IN IF index # 0
       THEN createWorker(withPool(terminate(s, w), type, RemoveAt(pool, index)), type)
       ELSE s

\* ------------------------------------------------------------ scheduling
activeSize(s) == Cardinality({t \in Tasks : s.active[t] # NoWorker})

postMessage(s, w, cmd) ==
    IF s.terminated[w] THEN s ELSE [s EXCEPT !.inbox[w] = Append(@, cmd)]

\* executeTask(task, worker)
executeTask(s, t, w) ==
    LET s1 == [s EXCEPT !.assignedBusy = @ \/ s.busy[w],
                        !.busy[w] = TRUE,
                        !.taskId[w] = t,
                        !.active[t] = w,
                        !.status[t] = "processing",
                        !.dispatched[t] = @ + 1]
        cmd == [type |-> IF s.ttype[t] = "batch" THEN "convert-batch" ELSE "convert",
                file |-> t]
    IN postMessage(s1, w, cmd)

\* A scheduling loop whose condition admits one task more than maxConcurrent.
processQueueLoopOneMore(s) ==
    IF /\ Len(s.queue) > 0
       /\ activeSize(s) <= s.maxConcurrent
       /\ ~s.isPaused
       /\ ~s.isDestroyed
    THEN LET t == Head(s.queue)
             s1 == [s EXCEPT !.queue = Tail(@)]
             g == getAvailableWorker(s1, s.ttype[t])
         IN IF g.thrown THEN g.s
            ELSE IF g.w = NoWorker
            THEN [g.s EXCEPT !.queue = <<t>> \o @]
            ELSE [executeTask(g.s, t, g.w) EXCEPT !.pqPending = @ + 1]
    ELSE s

\* A scheduling loop that puts a task without a worker at the end of the
\* queue.
processQueueLoopPutLast(s) ==
    IF /\ Len(s.queue) > 0
       /\ activeSize(s) < s.maxConcurrent
       /\ ~s.isPaused
       /\ ~s.isDestroyed
    THEN LET t == Head(s.queue)
             s1 == [s EXCEPT !.queue = Tail(@)]
             g == getAvailableWorker(s1, s.ttype[t])
         IN IF g.thrown THEN g.s
            ELSE IF g.w = NoWorker
            THEN [g.s EXCEPT !.queue = @ \o <<t>>]
            ELSE [executeTask(g.s, t, g.w) EXCEPT !.pqPending = @ + 1]
    ELSE s

\* One pass of the while loop of processQueue, from the loop condition to the
\* `await`: it either leaves the loop or dispatches one task and suspends.
\* When getAvailableWorker throws, the exception leaves processQueue with the
\* task already shifted out of the queue.
processQueueLoop(s) ==
    IF /\ Len(s.queue) > 0
       /\ activeSize(s) < s.maxConcurrent
       /\ ~s.isPaused
       /\ ~s.isDestroyed
    THEN LET t == Head(s.queue)
             s1 == [s EXCEPT !.queue = Tail(@)]
             g == getAvailableWorker(s1, s.ttype[t])
         IN IF g.thrown THEN g.s
            ELSE IF g.w = NoWorker
            THEN [g.s EXCEPT !.queue = <<t>> \o @]
            ELSE [executeTask(g.s, t, g.w) EXCEPT !.pqPending = @ + 1]
    ELSE s

\* processQueue(): the synchronous part of a call.
processQueue(s) ==
    IF s.isPaused \/ s.isDestroyed THEN s ELSE processQueueLoop(s)

\* pause(): throws on a destroyed queue, else sets the flag.
pause(s) ==
    IF s.isDestroyed THEN s ELSE [s EXCEPT !.isPaused = TRUE]

\* resume(): throws on a destroyed queue; on a paused queue it clears the flag
\* and calls processQueue.
resume(s) ==
    IF s.isDestroyed THEN s
    ELSE IF s.isPaused THEN processQueue([s EXCEPT !.isPaused = FALSE])
    ELSE s

\* Whether a mutating call throws 'queue has been destroyed'.
destroyedGuard(s) == IF s.isDestroyed THEN "throws" ELSE ""

\* ------------------------------------------------------- terminal events
emitComplete(s, t) == [s EXCEPT !.evComplete[t] = @ + 1]
emitError(s, t) == [s EXCEPT !.evError[t] = @ + 1]
emitCancelled(s, t) == [s EXCEPT !.evCancelled[t] = @ + 1]

\* handleProgress / handleBatchProgress: emit 'progress' with the percent of
\* the worker's message.
emitProgress(s, t, percent) == [s EXCEPT !.evProgress[t] = percent]

handleProgress(s, t, percent) == emitProgress(s, t, percent)

handleBatchProgress(s, t, percent) == emitProgress(s, t, percent)

\* handleSuccess / handleBatchComplete: release the worker, emit 'complete',
\* schedule the next task.
handleSuccess(s, t) ==
    processQueue(emitComplete(
        releaseWorker([s EXCEPT !.totalTasksProcessed = @ + 1], t), t))

handleBatchComplete(s, t) ==
    processQueue(emitComplete(
        releaseWorker([s EXCEPT !.totalTasksProcessed = @ + 1], t), t))

\* handleCancellation
handleCancellation(s, t) == processQueue(emitCancelled(releaseWorker(s, t), t))

\* handleTaskError: count the attempt; while task.retries < maxRetries arm a
\* retry timer (the worker is not released), else count the failure and fail
\* the task.
handleTaskError(s, t) ==
    LET s1 == [s EXCEPT !.retries[t] = @ + 1]
    IN IF s1.retries[t] < maxRetries
       THEN [s1 EXCEPT !.timers[t] = @ + 1]
       ELSE processQueue(emitError(
                releaseWorker([s1 EXCEPT !.totalTasksFailed = @ + 1], t), t))

\* The callback of the retry timer armed by handleTaskError.
retryTimer(s, t) ==
    LET s1 == [s EXCEPT !.timers[t] = @ - 1]
    IN IF ~s1.isDestroyed
       THEN processQueue([s1 EXCEPT !.status[t] = "queued",
                                    !.queue = <<t>> \o @])
       ELSE s1

\* The queue has handled a message or an error of worker w.
heard(s, w) ==
    [s EXCEPT !.cancelSent = [t \in Tasks |-> IF @[t] = w THEN NoWorker ELSE @[t]]]

\* handleWorkerMessage(worker, event): the switch on event.data.type.  A
\* message without a type field matches no case.
handleWorkerMessage(s, w, msg) ==
    LET t == s.taskId[w]
        s1 == heard(s, w)
    IN IF t = NoTask \/ s.active[t] = NoWorker THEN s1
       ELSE CASE msg.type = "progress" -> handleProgress(s1, t, msg.percent)
              [] msg.type = "batch-progress" -> handleBatchProgress(s1, t, msg.percent)
              [] msg.type = "success" -> handleSuccess(s1, t)
              [] msg.type = "batch-complete" -> handleBatchComplete(s1, t)
              [] msg.type \in {"cancelled", "batch-cancelled"} -> handleCancellation(s1, t)
              [] msg.type \in {"error", "batch-error"} -> handleTaskError(s1, t)
              [] OTHER -> s1

\* A handler of worker.onerror without the test for an Event.
handleWorkerErrorUnguarded(s, w, arg) ==
    LET t == s.taskId[w]
        s1 == IF t # NoTask /\ s.active[t] # NoWorker
              THEN handleTaskError(heard(s, w), t) ELSE heard(s, w)
    IN replaceWorker(s1, w)

\* handleWorkerError(worker, error): returns at once when the argument is an
\* Event; otherwise the task held by the worker takes the error path and the
\* worker is replaced.
handleWorkerError(s, w, arg) ==
    IF arg = "Event" THEN heard(s, w)
    ELSE LET t == s.taskId[w]
             s1 == IF t # NoTask /\ s.active[t] # NoWorker
                   THEN handleTaskError(heard(s, w), t) ELSE heard(s, w)
         IN replaceWorker(s1, w)

\* cancelTask(taskId): "queued" when the task was found in the queue,
\* "active" when a cancel command was posted, "none" when it returns false.
cancelTaskBranch(s, t) ==
    IF InSeq(s.queue, t) THEN "queued"
    ELSE IF s.active[t] # NoWorker THEN "active" ELSE "none"

cancelTaskReturn(s, t) == IF cancelTaskBranch(s, t) = "none" THEN "false" ELSE "true"

cancelTask(s, t) ==
    CASE cancelTaskBranch(s, t) = "queued" ->
           emitCancelled([s EXCEPT !.queue = RemoveAt(@, IndexOf(@, t, 1)),
                                   !.cancelledPending = @ \cup {t}], t)
      [] cancelTaskBranch(s, t) = "active" ->
           postMessage([s EXCEPT !.cancelSent[t] = IF s.terminated[s.active[t]]
                                                    THEN @ ELSE s.active[t]],
                       s.active[t],
                       [type |-> IF s.ttype[t] = "batch" THEN "cancel-batch" ELSE "cancel",
                        file |-> NoTask])
      [] OTHER -> s

RECURSIVE cancelQueued(_)
cancelQueued(s) ==
    IF Len(s.queue) = 0 THEN s
    ELSE cancelQueued(emitCancelled([s EXCEPT !.queue = Tail(@),
                                              !.cancelledPending = @ \cup {Head(s.queue)}],
                                    Head(s.queue)))

RECURSIVE cancelActive(_, _)
cancelActive(s, t) ==
    IF t > MaxTasks THEN s
    ELSE IF s.active[t] # NoWorker
         THEN cancelActive(postMessage(s, s.active[t],
                  [type |-> IF s.ttype[t] = "batch" THEN "cancel-batch" ELSE "cancel",
                   file |-> NoTask]), t + 1)
         ELSE cancelActive(s, t + 1)

\* cancelAll(): every queued task is cancelled, every active task's worker is
\* sent the cancel command.
cancelAll(s) == cancelActive(cancelQueued(s), 1)

\* destroy(): returns at once on a destroyed queue; else sets isDestroyed,
\* clears isPaused, cancels everything and arms the teardown timer.
destroy(s) ==
    IF s.isDestroyed THEN s
    ELSE [cancelAll([s EXCEPT !.isDestroyed = TRUE, !.isPaused = FALSE])
             EXCEPT !.teardownTimer = "armed"]

RECURSIVE terminateAll(_, _, _)
terminateAll(s, pool, i) ==
    IF i > Len(pool) THEN s ELSE terminateAll(terminate(s, pool[i]), pool, i + 1)

\* The callback of the timer armed by destroy(): terminate the workers of
\* both pools, clear the pools, the active set, the queue and the handlers.
teardown(s) ==
    LET s1 == terminateAll(s, s.workerPool \o s.batchWorkerPool, 1)
    IN [s1 EXCEPT !.workerPool = <<>>,
                  !.batchWorkerPool = <<>>,
                  !.active = [t \in Tasks |-> NoWorker],
                  !.queue = <<>>,
                  !.eventHandlers = {},
                  !.teardownTimer = "fired"]

\* on(event, handler)
EventNames ==
    {"progress", "complete", "error", "cancelled", "workerError",
     "queuePaused", "queueResumed"}

on(s, event) ==
    IF event \in EventNames THEN [s EXCEPT !.eventHandlers = @ \cup {event}] ELSE s

\* off(event, handler) with the handler the caller registered for the event;
\* an event without that handler is left as it is.
off(s, event) ==
    IF event \in EventNames THEN [s EXCEPT !.eventHandlers = @ \ {event}] ELSE s

\* addFile / addBatch after validation: create the task, push, sort, schedule.
addTask(s, type, p) ==
    LET t == s.nextId
        s1 == [s EXCEPT !.nextId = t + 1,
                        !.ttype[t] = type,
                        !.prio[t] = p,
                        !.retries[t] = 0,
                        !.status[t] = "queued",
                        !.queue = Append(@, t)]
    IN processQueue([s1 EXCEPT !.queue = sortByPriority(@, s1.prio, MaxPriority)])

addFile(s, p) == addTask(s, "single", p)

addBatch(s, p) == addTask(s, "batch", p)

\* ---- validation of a submission (addFile / addBatch before the task exists)
\* A file as the caller passes it: its name ("" when it has none) and size.
GoodFile == [name |-> "a.heic", size |-> 100]

SubmittedFiles ==
    {GoodFile, [name |-> "", size |-> 100], [name |-> "a.heic", size |-> 0 - 1]}

\* options.targetType as the caller passes it ("" when it is not given).
RawTargetTypes == {"", "PNG", "gif"}

validTargetTypes == {"jpeg", "jpg", "png", "webp"}

toLowerCase(str) ==
    CASE str = "PNG" -> "png"
      [] str = "JPEG" -> "jpeg"
      [] OTHER -> str

\* The check that throws for a file, "" when none does.
fileError(file) ==
    IF file.name = "" THEN "name"
    ELSE IF file.size < 0 THEN "size"
    ELSE ""

targetTypeError(raw) ==
    LET targetType == IF raw = "" THEN "jpeg" ELSE raw
    IN IF toLowerCase(targetType) \in validTargetTypes THEN "" ELSE "targetType"

addFileError(s, file, raw) ==
    IF s.isDestroyed THEN "destroyed"
    ELSE IF fileError(file) # "" THEN fileError(file)
    ELSE targetTypeError(raw)

\* The batches a caller submits: empty, one file too many, one or two files.
SubmittedBatches ==
    {<<>>, [i \in 1..(maxBatchFiles + 1) |-> GoodFile], <<GoodFile>>,
     <<[name |-> "", size |-> 100]>>,
     <<GoodFile, [name |-> "a.heic", size |-> 0 - 1]>>}

addBatchError(s, files, raw) ==
    IF s.isDestroyed THEN "destroyed"
    ELSE IF Len(files) = 0 THEN "empty"
    ELSE IF Len(files) > maxBatchFiles THEN "tooMany"
    ELSE IF \E i \in 1..Len(files) : fileError(files[i]) # ""
    THEN LET i == CHOOSE j \in 1..Len(files) :
                    /\ fileError(files[j]) # ""
                    /\ \A k \in 1..(j - 1) : fileError(files[k]) = ""
         IN fileError(files[i])
    ELSE targetTypeError(raw)

\* addFile with the target type checked only after the task was queued.
submitFileLate(s, file, raw, p) ==
    IF s.isDestroyed \/ fileError(file) # "" THEN s ELSE addFile(s, p)

\* addFile(file, {targetType: raw, priority: p}) as a whole.
submitFile(s, file, raw, p) ==
    IF addFileError(s, file, raw) # "" THEN s ELSE addFile(s, p)

\* addBatch(files, {targetType: raw, priority: p}) as a whole.
submitBatch(s, files, raw, p) ==
    IF addBatchError(s, files, raw) # "" THEN s ELSE addBatch(s, p)

\* ---- task.options of addFile / addBatch and the command of executeTask
\* The options object of the caller: `keys` are the properties it has.
RawQualities == {0, 50, 150}

SubmittedOptions ==
    {o \in [keys : SUBSET {"targetType", "quality"},
            targetType : {"", "PNG", "png", "gif"},
            quality : {0} \cup RawQualities] :
        /\ ("targetType" \in o.keys) <=> (o.targetType # "")
        /\ ("quality" \notin o.keys) => (o.quality = 0)}

defaultTargetType == "jpeg"
defaultQuality == 90

\* const targetType = options.targetType || 'jpeg'
targetTypeOf(o) ==
    IF "targetType" \in o.keys /\ o.targetType # "" THEN o.targetType
    ELSE defaultTargetType

\* const quality = Math.min(100, Math.max(1, options.quality || 90))
qualityOf(o) ==
    LET q == IF "quality" \in o.keys /\ o.quality # 0 THEN o.quality
             ELSE defaultQuality
    IN Min(100, IF q < 1 THEN 1 ELSE q)

\* task.options = { targetType: targetType.toLowerCase(), quality, ...options }:
\* the properties of the caller's object are spread last.
taskOptions(o) ==
    [targetType |-> IF "targetType" \in o.keys THEN o.targetType
                    ELSE toLowerCase(targetTypeOf(o)),
     quality |-> IF "quality" \in o.keys THEN o.quality ELSE qualityOf(o)]

submittedOptionsStart == [tasks |-> <<>>, commands |-> <<>>]

\* addFile / addBatch with options o: validation, then the task.
submitWithOptions(c, type, o) ==
    IF toLowerCase(targetTypeOf(o)) \notin validTargetTypes THEN c
    ELSE [c EXCEPT !.tasks = Append(@, [type |-> type, raw |-> o,
                                        options |-> taskOptions(o),
                                        sent |-> FALSE])]

\* executeTask: the command posted for task i.
commandOf(task) ==
    [type |-> IF task.type = "batch" THEN "convert-batch" ELSE "convert",
     targetType |-> task.options.targetType,
     quality |-> task.options.quality,
     raw |-> task.raw]

executeTaskCommand(c, i) ==
    [c EXCEPT !.tasks[i].sent = TRUE,
              !.commands = Append(@, commandOf(c.tasks[i]))]

\* ---- the simple priority ConversionQueue (add / process / _convert / cancel)
\* Items are identified by their id; `inFlight` are the ids whose _convert
\* waits at its await.  `constructed` is FALSE before the constructor ran.
\* inFlight holds the ids whose _convert waits on its timer; detached holds
\* the items of those that clearAll() has taken out of the queue; adds counts
\* the add calls.
simpleQueueStart ==
    [constructed |-> FALSE, maxConcurrent |-> 0, queue |-> <<>>,
     activeConversions |-> {}, processing |-> FALSE, inFlight |-> {},
     detached |-> <<>>, adds |-> 0,
     totalProcessed |-> 0, totalFailed |-> 0, totalCancelled |-> 0]

newSimpleQueue(mc) ==
    [simpleQueueStart EXCEPT !.constructed = TRUE, !.maxConcurrent = mc]

SimplePriorities == {0, 1}
itemMaxRetries == 2

\* The position of the first item of the queue that satisfies state = st, 0
\* when there is none (Array.prototype.find).
RECURSIVE findState(_, _, _)
findState(items, st, i) ==
    IF i > Len(items) THEN 0
    ELSE IF items[i].state = st THEN i
    ELSE findState(items, st, i + 1)

RECURSIVE findId(_, _, _)
findId(items, id, i) ==
    IF i > Len(items) THEN 0
    ELSE IF items[i].id = id THEN i
    ELSE findId(items, id, i + 1)

\* queue.push(item); queue.sort(by priority, descending): the sort is stable
\* and the queue was sorted, so the item goes behind the last item whose
\* priority is not lower.
RECURSIVE pushSorted(_, _)
pushSorted(items, item) ==
    IF items = <<>> THEN <<item>>
    ELSE IF Head(items).priority >= item.priority
         THEN <<Head(items)>> \o pushSorted(Tail(items), item)
         ELSE <<item>> \o items

\* The while loop of process().
RECURSIVE simpleProcessLoop(_)
simpleProcessLoop(q) ==
    IF Cardinality(q.activeConversions) < q.maxConcurrent
    THEN LET i == findState(q.queue, "PENDING", 1)
         IN IF i = 0 THEN q
            ELSE simpleProcessLoop(
                     [q EXCEPT !.queue[i].state = "PROCESSING",
                               !.activeConversions = @ \cup {q.queue[i].id},
                               !.inFlight = @ \cup {q.queue[i].id}])
    ELSE q

\* process(): it has no await, so it runs to its end in one go.
simpleProcess(q) ==
    IF q.processing THEN q
    ELSE [simpleProcessLoop([q EXCEPT !.processing = TRUE])
              EXCEPT !.processing = FALSE]

\* add(item)
simpleAdd(q, id, priority, hasFile) ==
    simpleProcess([q EXCEPT !.adds = @ + 1, !.queue = pushSorted(@,
        [id |-> id, priority |-> priority, hasFile |-> hasFile,
         state |-> "PENDING", retryCount |-> 0, maxRetries |-> itemMaxRetries])])

\* _convert(item) from its await on: item.file.size throws for an item
\* without a file; the catch retries or fails the item; the finally block
\* removes the id from activeConversions and calls process().
\* The item of a _convert call is in the queue or, after clearAll(), only in
\* the hands of that call.
simpleConvert(q, id) ==
    LET i == findId(q.queue, id, 1)
        d == findId(q.detached, id, 1)
        item == IF i > 0 THEN q.queue[i] ELSE q.detached[d]
        q0 == [q EXCEPT !.inFlight = @ \ {id},
                        !.detached = IF i = 0 THEN RemoveAt(@, d) ELSE @]
        done == [q0 EXCEPT !.queue = IF i = 0 THEN @
                                     ELSE [@ EXCEPT ![i].state = "COMPLETED"],
                           !.totalProcessed = @ + 1]
        retried == simpleProcess(
                       [q0 EXCEPT !.queue =
                           IF i = 0 THEN @
                           ELSE [@ EXCEPT ![i].state = "PENDING",
                                          ![i].retryCount = @ + 1]])
        failed == [q0 EXCEPT !.queue = IF i = 0 THEN @
                                       ELSE [@ EXCEPT ![i].state = "FAILED"],
                             !.totalFailed = @ + 1]
        q1 == IF item.hasFile THEN done
              ELSE IF item.retryCount < item.maxRetries THEN retried
              ELSE failed
    IN simpleProcess([q1 EXCEPT !.activeConversions = @ \ {id}])

\* cancel(id)
simpleCancel(q, id) ==
    LET i == findId(q.queue, id, 1)
    IN IF i = 0 \/ q.queue[i].state # "PENDING" THEN q
       ELSE [q EXCEPT !.queue[i].state = "CANCELLED",
                      !.totalCancelled = @ + 1]

\* clearCompleted()
clearCompleted(q) ==
    [q EXCEPT !.queue = SelectSeq(@, LAMBDA item : item.state # "COMPLETED")]

\* clearAll(): the _convert calls under way keep their items.
clearAll(q) ==
    [q EXCEPT !.queue = <<>>,
              !.detached = @ \o SelectSeq(q.queue,
                                          LAMBDA item : item.id \in q.inFlight),
              !.activeConversions = {},
              !.processing = FALSE]

\* ------------------------------------------------------------ worker side
post(s, w, msg) == [s EXCEPT !.outbox[w] = Append(@, msg)]

\* calculateBatchProgress(fileIndex, fileProgress) for a batch of n files.
calculateBatchProgress(fileIndex, fileProgress, n) ==
    Min(100, (fileIndex * 100) \div n + fileProgress \div n)

\* A conversion of a worker is one async invocation of its onmessage for a
\* convert command, suspended at an await: running[w][i] is the task it was
\* asked for, stage[w][i] the await it waits at (with, in the batch worker,
\* the index of the file it converts and, in the single-file worker, the time
\* the progress interval last fired at).
\* sendProgress of conversion i of worker w.
workerSendProgress(s, w, i, percent) ==
    post(s, w, [type |-> IF s.wtype[w] = "batch" THEN "batch-progress"
                         ELSE "progress",
                outcome |-> "progress", file |-> s.running[w][i],
                percent |-> percent])

\* The async function of conversion i returns.
workerReturn(s, w, i) ==
    [s EXCEPT !.running[w] = RemoveAt(@, i), !.stage[w] = RemoveAt(@, i)]

\* The catch block of the single-file worker: the untyped messages
\* {success: false, cancelled: true, error} for the cancellation error and
\* {success: false, error} for any other.
workerCatch(s, w, i, outcome) ==
    workerReturn(post(s, w, [type |-> "undefined", outcome |-> outcome,
                             file |-> s.running[w][i],
                             percent |-> NoProgress]), w, i)

\* The single-file worker after the file-reading delay: check the flag,
\* report 20 twice, start the progress interval and the decoder, which
\* throws at once for a target type that is neither jpeg nor png.
workerAfterRead(s, w, i, supported) ==
    IF s.wCancelled[w] THEN workerCatch(s, w, i, "cancelled")
    ELSE LET s1 == workerSendProgress(workerSendProgress(s, w, i, 20), w, i, 20)
         IN IF supported THEN [s1 EXCEPT !.stage[w][i].pc = "decode"]
            ELSE workerCatch(s1, w, i, "error")

\* The callback of the progress interval, elapsed ms after the decoder was
\* started.
workerInterval(s, w, i, elapsed) ==
    LET s1 == [s EXCEPT !.stage[w][i].elapsed = elapsed]
    IN IF ~s.wCancelled[w]
       THEN workerSendProgress(s1, w, i, Min(50, 20 + elapsed \div 100))
       ELSE s1

\* The single-file worker after the decoder: check the flag, report 60 twice.
workerAfterDecode(s, w, i, decoded) ==
    IF ~decoded THEN workerCatch(s, w, i, "error")
    ELSE IF s.wCancelled[w] THEN workerCatch(s, w, i, "cancelled")
    ELSE [workerSendProgress(workerSendProgress(s, w, i, 60), w, i, 60)
             EXCEPT !.stage[w][i].pc = "encode1"]

\* After the first encoding delay: check the flag, report 80.
workerAfterEncode1(s, w, i) ==
    IF s.wCancelled[w] THEN workerCatch(s, w, i, "cancelled")
    ELSE [workerSendProgress(s, w, i, 80) EXCEPT !.stage[w][i].pc = "encode2"]

\* After the second encoding delay: check the flag, report 90 twice and 100,
\* post the untyped result {success: true, result, metadata}.
workerAfterEncode2(s, w, i) ==
    IF s.wCancelled[w] THEN workerCatch(s, w, i, "cancelled")
    ELSE LET s1 == workerSendProgress(
                       workerSendProgress(
                           workerSendProgress(s, w, i, 90), w, i, 90), w, i, 100)
         IN workerReturn(post(s1, w, [type |-> "undefined",
                                      outcome |-> "success",
                                      file |-> s.running[w][i],
                                      percent |-> NoProgress]), w, i)

\* The batch worker after its file loop: unless batchState.isCancelled,
\* report 100 and post 'batch-complete'.
batchReturn(s, w, i) ==
    IF ~s.wCancelled[w]
    THEN workerReturn(post(workerSendProgress(s, w, i, 100), w,
                           [type |-> "batch-complete", outcome |-> "success",
                            file |-> s.running[w][i],
                            percent |-> NoProgress]), w, i)
    ELSE workerReturn(s, w, i)

\* The head of the file loop at file k: leave the loop at the end of the
\* list or when batchState.isCancelled, else start file k (convertSingleFile
\* up to its first await).
batchLoop(s, w, i, k) ==
    IF k >= BatchFiles \/ s.wCancelled[w] THEN batchReturn(s, w, i)
    ELSE workerSendProgress([s EXCEPT !.stage[w][i] = [pc |-> "load", file |-> k,
                                                      elapsed |-> 0]],
                            w, i, calculateBatchProgress(k, 0, BatchFiles))

\* sendProgress(calculateBatchProgress(fileIndex, fileProgress), ...)
batchFileProgress(s, w, i, fileProgress) ==
    workerSendProgress(s, w, i,
                       calculateBatchProgress(s.stage[w][i].file, fileProgress,
                                              BatchFiles))

\* The catch block of convertSingleFile: the loop goes on with the next file.
batchFileFailed(s, w, i) == batchLoop(s, w, i, s.stage[w][i].file + 1)

\* convertSingleFile after the loading delay: report 20, check the flag,
\* report 40, call the decoder.
batchAfterLoad(s, w, i, supported) ==
    LET s1 == batchFileProgress(s, w, i, 20)
    IN IF s.wCancelled[w] THEN batchFileFailed(s1, w, i)
       ELSE IF supported
            THEN [batchFileProgress(s1, w, i, 40) EXCEPT !.stage[w][i].pc = "decode"]
            ELSE batchFileFailed(batchFileProgress(s1, w, i, 40), w, i)

\* convertSingleFile after the decoder: check the flag, report 70.
batchAfterDecode(s, w, i, decoded) ==
    IF ~decoded \/ s.wCancelled[w] THEN batchFileFailed(s, w, i)
    ELSE [batchFileProgress(s, w, i, 70) EXCEPT !.stage[w][i].pc = "encode"]

\* convertSingleFile after the encoding delay: report 90 and 100; the loop
\* goes on with the next file.
batchAfterEncode(s, w, i) ==
    batchLoop(batchFileProgress(batchFileProgress(s, w, i, 90), w, i, 100),
              w, i, s.stage[w][i].file + 1)

\* A timer of conversion i fires.
workerTimeout(s, w, i, supported) ==
    CASE s.stage[w][i].pc = "read" -> workerAfterRead(s, w, i, supported)
      [] s.stage[w][i].pc = "encode1" -> workerAfterEncode1(s, w, i)
      [] s.stage[w][i].pc = "encode2" -> workerAfterEncode2(s, w, i)
      [] s.stage[w][i].pc = "load" -> batchAfterLoad(s, w, i, supported)
      [] s.stage[w][i].pc = "encode" -> batchAfterEncode(s, w, i)

\* The decoder of conversion i resolves (decoded) or rejects.
workerDecoded(s, w, i, decoded) ==
    IF s.wtype[w] = "batch" THEN batchAfterDecode(s, w, i, decoded)
    ELSE workerAfterDecode(s, w, i, decoded)

\* self.onerror of the workers: an untyped {success: false, error} from the
\* single-file worker, 'batch-error' from the batch worker.  The conversions
\* go on.
workerOnError(s, w) ==
    post(s, w, [type |-> IF s.wtype[w] = "batch" THEN "batch-error"
                         ELSE "undefined",
                outcome |-> "error", file |-> NoTask, percent |-> NoProgress])

\* self.onmessage of the workers: a cancel command sets the flag and answers
\* 'cancelled' at once; a convert command clears the flag and runs the
\* conversion up to its first await.  postMessage of a mock worker answers a
\* convert command with an 'error' message and ignores every other command.
workerOnMessage(s, w) ==
    LET cmd == Head(s.inbox[w])
        s1 == [s EXCEPT !.inbox[w] = Tail(@)]
    IN CASE s.isMock[w] ->
              IF cmd.type \in {"convert", "convert-batch"}
              THEN post(s1, w, [type |-> "error", outcome |-> "error",
                                file |-> cmd.file, percent |-> NoProgress])
              ELSE s1
         [] cmd.type = "cancel" /\ s.wtype[w] = "single" ->
              post([s1 EXCEPT !.wCancelled[w] = TRUE], w,
                   [type |-> "cancelled", outcome |-> "cancelled", file |-> NoTask,
                    percent |-> NoProgress])
         [] cmd.type = "cancel-batch" /\ s.wtype[w] = "batch" ->
              post([s1 EXCEPT !.wCancelled[w] = TRUE], w,
                   [type |-> "batch-cancelled", outcome |-> "cancelled", file |-> NoTask,
                    percent |-> NoProgress])
         [] cmd.type = "convert" /\ s.wtype[w] = "single" ->
              LET i == Len(s.running[w]) + 1
                  s2 == [s1 EXCEPT !.wCancelled[w] = FALSE,
                                   !.running[w] = Append(@, cmd.file),
                                   !.stage[w] = Append(@, [pc |-> "read", file |-> 0,
                                                           elapsed |-> 0])]
              IN workerSendProgress(workerSendProgress(s2, w, i, 0), w, i, 10)
         [] cmd.type = "convert-batch" /\ s.wtype[w] = "batch" ->
              LET i == Len(s.running[w]) + 1
                  s2 == [s1 EXCEPT !.wCancelled[w] = FALSE,
                                   !.running[w] = Append(@, cmd.file),
                                   !.stage[w] = Append(@, [pc |-> "start", file |-> 0,
                                                           elapsed |-> 0])]
              IN batchLoop(workerSendProgress(s2, w, i, 0), w, i, 0)
         [] OTHER -> s1

\* ---------------------------------------- the single-file worker in detail
\* The module state of the worker (isCancelled), its conversions (one async
\* invocation of onmessage per 'convert' command, suspended at an await), and
\* the messages it has posted, in order, per conversion they belong to
\* (`stray` counts the messages posted while no conversion had been asked
\* for).  `released` is the queue's side: the worker holds no task.
singleWorkerStart ==
    [isCancelled |-> FALSE, convs |-> <<>>, stray |-> 0, released |-> TRUE,
     uncaught |-> 0]

TargetTypes == {"jpeg", "png", "gif"}

\* self.postMessage of conversion c.
swPost(w, c, type, outcome, percent) ==
    IF c = 0 THEN [w EXCEPT !.stray = @ + 1]
    ELSE [w EXCEPT !.convs[c].posted =
                       Append(@, [type |-> type, outcome |-> outcome,
                                  percent |-> percent])]

\* sendProgress(progress, stage, message)
sendProgress(w, c, percent) == swPost(w, c, "progress", "progress", percent)

\* The catch block: {success: false, cancelled: true, error} for the
\* cancellation error, {success: false, error} for any other; the
\* conversion is over.
swCatch(w, c, message) ==
    [swPost(w, c, "undefined",
            IF message = "Conversion cancelled" THEN "cancelled" ELSE "error",
            NoProgress)
        EXCEPT !.convs[c].pc = "done"]

\* self.onerror for an uncaught error raised while conversion c runs (0: no
\* conversion): post the untyped {success: false, error}; the conversion
\* goes on.
singleOnError(w, c) ==
    [swPost(w, c, "undefined", "error", NoProgress) EXCEPT !.uncaught = @ + 1]

\* onmessage, type 'cancel': set the flag, post {type: 'cancelled'}.  The
\* queue releases the worker when it handles that message.
singleOnCancel(w) ==
    LET w1 == swPost(w, Len(w.convs), "cancelled", "cancelled", NoProgress)
    IN [w1 EXCEPT !.isCancelled = TRUE,
                  !.released = TRUE,
                  !.convs = [c \in 1..Len(w.convs) |->
                               IF w.convs[c].pc # "done"
                               THEN [w1.convs[c] EXCEPT !.cancelSeen = TRUE]
                               ELSE w1.convs[c]]]

\* onmessage, type 'convert', up to the first await: clear the flag, report
\* 0 and 10.
singleOnConvert(w, target) ==
    LET c == Len(w.convs) + 1
        w1 == [w EXCEPT !.isCancelled = FALSE,
                        !.released = FALSE,
                        !.convs = Append(@, [pc |-> "read", target |-> target,
                                             elapsed |-> 0, cancelSeen |-> FALSE,
                                             posted |-> <<>>])]
    IN sendProgress(sendProgress(w1, c, 0), c, 10)

\* After the file-reading delay: check the flag, report 20 twice, start the
\* progress interval and the decoder.
singleAfterRead(w, c) ==
    IF w.isCancelled THEN swCatch(w, c, "Conversion cancelled")
    ELSE LET w1 == sendProgress(sendProgress(w, c, 20), c, 20)
         IN IF w.convs[c].target \in {"jpeg", "png"}
            THEN [w1 EXCEPT !.convs[c].pc = "decode"]
            ELSE swCatch(w1, c, "Unsupported conversion type")

\* The callback of the progress interval, `elapsed` ms after the decoder was
\* started.
singleInterval(w, c, elapsed) ==
    LET w1 == [w EXCEPT !.convs[c].elapsed = elapsed]
    IN IF ~w.isCancelled
       THEN sendProgress(w1, c, Min(50, 20 + elapsed \div 100))
       ELSE w1

\* The decoder has returned (or thrown): check the flag, report 60 twice.
singleAfterDecode(w, c, decoded) ==
    IF ~decoded THEN swCatch(w, c, "decoder error")
    ELSE IF w.isCancelled THEN swCatch(w, c, "Conversion cancelled")
    ELSE [sendProgress(sendProgress(w, c, 60), c, 60) EXCEPT !.convs[c].pc = "encode1"]

\* After the first encoding delay: check the flag, report 80.
singleAfterEncode1(w, c) ==
    IF w.isCancelled THEN swCatch(w, c, "Conversion cancelled")
    ELSE [sendProgress(w, c, 80) EXCEPT !.convs[c].pc = "encode2"]

\* After the second encoding delay: check the flag, report 90 twice and 100,
\* post the result {success: true, result, metadata}.
singleAfterEncode2(w, c) ==
    IF w.isCancelled THEN swCatch(w, c, "Conversion cancelled")
    ELSE LET w1 == sendProgress(sendProgress(sendProgress(w, c, 90), c, 90), c, 100)
         IN [swPost(w1, c, "undefined", "success", NoProgress)
                EXCEPT !.convs[c].pc = "done"]

\* ---------------------------------------------- the batch worker in detail
\* batchState is the module-level object of the worker, replaced by every
\* 'convert-batch' command.  A run is one async invocation of onmessage for a
\* 'convert-batch' command, at file index i, suspended at an await of
\* convertSingleFile; `started` counts the files it has started, `posted` are
\* the messages it has posted.  A file is named by its run and its index.
freshBatchState(n) ==
    [isCancelled |-> FALSE, totalFiles |-> n, results |-> <<>>, errors |-> <<>>,
     filesProcessed |-> 0]

batchWorkerStart ==
    [batchState |-> freshBatchState(0), runs |-> <<>>, stray |-> 0, released |-> TRUE,
     uncaught |-> 0]

NoSummary == [totalFiles |-> 0, successCount |-> 0, errorCount |-> 0]

bwPost(w, r, type, percent, results, errors, summary) ==
    IF r = 0 THEN [w EXCEPT !.stray = @ + 1]
    ELSE [w EXCEPT !.runs[r].posted =
                       Append(@, [type |-> type, percent |-> percent,
                                  results |-> results, errors |-> errors,
                                  summary |-> summary])]

\* sendProgress of the batch worker
bwSendProgress(w, r, percent) ==
    bwPost(w, r, "batch-progress", percent, <<>>, <<>>, NoSummary)

\* sendProgress(calculateBatchProgress(fileIndex, fileProgress), ...): the
\* total is read from the current batchState.
bwFileProgress(w, r, fileProgress) ==
    bwSendProgress(w, r, calculateBatchProgress(w.runs[r].i, fileProgress,
                                                w.batchState.totalFiles))

\* After the file loop: unless batchState.isCancelled, report 100 and post
\* 'batch-complete' with the results, the errors and the summary.
bwFinish(w, r) ==
    LET w1 == [w EXCEPT !.runs[r].pc = "done"]
        b == w.batchState
    IN IF ~b.isCancelled
       THEN [bwPost(bwSendProgress(w1, r, 100), r, "batch-complete", NoProgress,
                    b.results, b.errors,
                    [totalFiles |-> b.totalFiles,
                     successCount |-> Len(b.results),
                     errorCount |-> Len(b.errors)])
                EXCEPT !.released = TRUE]
       ELSE w1

\* The head of the file loop at index i: leave the loop at the end of the
\* list or when batchState.isCancelled, else start file i (convertSingleFile
\* up to its first await).
bwLoop(w, r, i) ==
    IF i >= w.runs[r].files \/ w.batchState.isCancelled THEN bwFinish(w, r)
    ELSE bwFileProgress([w EXCEPT !.runs[r].i = i,
                                  !.runs[r].pc = "load",
                                  !.runs[r].started = @ + 1], r, 0)

\* The catch block of convertSingleFile: record the error with the file name;
\* the loop goes on with the next file.
bwFileFailed(w, r, message) ==
    bwLoop([w EXCEPT !.batchState.errors =
                         Append(@, [fileName |-> <<r, w.runs[r].i>>, error |-> message])],
           r, w.runs[r].i + 1)

\* convertSingleFile after the loading delay: report 20, check the flag,
\* report 40, call the decoder.
bwAfterLoad(w, r) ==
    LET w1 == bwFileProgress(w, r, 20)
    IN IF w.batchState.isCancelled THEN bwFileFailed(w1, r, "Batch conversion cancelled")
       ELSE IF w.runs[r].target \in {"jpeg", "png"}
            THEN [bwFileProgress(w1, r, 40) EXCEPT !.runs[r].pc = "decode"]
            ELSE bwFileFailed(bwFileProgress(w1, r, 40), r, "Unsupported conversion type")

\* convertSingleFile after the decoder: check the flag, report 70.
bwAfterDecode(w, r, decoded) ==
    IF ~decoded THEN bwFileFailed(w, r, "decoder error")
    ELSE IF w.batchState.isCancelled THEN bwFileFailed(w, r, "Batch conversion cancelled")
    ELSE [bwFileProgress(w, r, 70) EXCEPT !.runs[r].pc = "encode"]

\* convertSingleFile after the encoding delay: report 90 and 100, count the
\* file; the loop pushes the result and goes on with the next file.
bwAfterEncode(w, r) ==
    LET w1 == bwFileProgress(bwFileProgress(w, r, 90), r, 100)
    IN bwLoop([w1 EXCEPT !.batchState.filesProcessed = @ + 1,
                         !.batchState.results = Append(@, <<r, w.runs[r].i>>)],
              r, w.runs[r].i + 1)

\* self.onerror for an uncaught error raised while run r is under way (0: no
\* run): post {type: 'batch-error', error}; the run goes on.
batchOnError(w, r) ==
    [bwPost(w, r, "batch-error", NoProgress, <<>>, <<>>, NoSummary)
        EXCEPT !.uncaught = @ + 1]

\* onmessage, type 'cancel-batch': set the flag of the current batchState and
\* post 'batch-cancelled' with its results and errors.  The queue releases
\* the worker when it handles that message.
batchOnCancel(w) ==
    LET w1 == bwPost(w, Len(w.runs), "batch-cancelled", NoProgress,
                     w.batchState.results, w.batchState.errors, NoSummary)
    IN [w1 EXCEPT !.batchState.isCancelled = TRUE,
                  !.released = TRUE,
                  !.runs = [r \in 1..Len(w.runs) |->
                               IF w.runs[r].pc # "done"
                               THEN [w1.runs[r] EXCEPT !.cancelSeen = TRUE]
                               ELSE w1.runs[r]]]

\* onmessage, type 'convert-batch': replace batchState, report 0, enter the
\* file loop.
batchOnConvert(w, n, target) ==
    LET r == Len(w.runs) + 1
        w1 == [w EXCEPT !.batchState = freshBatchState(n),
                        !.released = FALSE,
                        !.runs = Append(@, [files |-> n, target |-> target, i |-> 0,
                                            pc |-> "start", started |-> 0,
                                            cancelSeen |-> FALSE, posted |-> <<>>])]
    IN bwLoop(bwSendProgress(w1, r, 0), r, 0)

\* The state after a handler has run.
Commit(s0, l) ==
  \E s1 \in {s0} : \E s \in {IF \A w \in WorkerIds : InUse(s1, w) \/ s1.wtype[w] = "none" THEN s1 ELSE collect(s1)} :
    /\ maxConcurrent' = s.maxConcurrent
    /\ isPaused' = s.isPaused
    /\ isDestroyed' = s.isDestroyed
    /\ nextId' = s.nextId
    /\ ttype' = s.ttype
    /\ prio' = s.prio
    /\ retries' = s.retries
    /\ status' = s.status
    /\ queue' = s.queue
    /\ active' = s.active
    /\ workerPool' = s.workerPool
    /\ batchWorkerPool' = s.batchWorkerPool
    /\ wtype' = s.wtype
    /\ busy' = s.busy
    /\ taskId' = s.taskId
    /\ terminated' = s.terminated
    /\ timers' = s.timers
    /\ pqPending' = s.pqPending
    /\ inbox' = s.inbox
    /\ outbox' = s.outbox
    /\ running' = s.running
    /\ wCancelled' = s.wCancelled
    /\ evComplete' = s.evComplete
    /\ evError' = s.evError
    /\ evCancelled' = s.evCancelled
    /\ dispatched' = s.dispatched
    /\ releasedIdle' = s.releasedIdle
    /\ cancels' = s.cancels
    /\ cancelledPending' = s.cancelledPending
    /\ cancelSent' = s.cancelSent
    /\ assignedBusy' = s.assignedBusy
    /\ crashes' = s.crashes
    /\ uncaught' = s.uncaught
    /\ maxWorkers' = s.maxWorkers
    /\ totalTasksFailed' = s.totalTasksFailed
    /\ totalTasksProcessed' = s.totalTasksProcessed
    /\ isMock' = s.isMock
    /\ evWorkerError' = s.evWorkerError
    /\ creationFailures' = s.creationFailures
    /\ failedWorkerCreations' = s.failedWorkerCreations
    /\ workersFail' = s.workersFail
    /\ eventHandlers' = s.eventHandlers
    /\ teardownTimer' = s.teardownTimer
    /\ stage' = s.stage
    /\ evProgress' = s.evProgress
    /\ last' = l
    /\ UNCHANGED <<sw, bw, mm, cp, pt, so, sq>>

\* ------------------------------------------------------------------ Init
Op(name, t, w, arg, ret) ==
    [op |-> name, task |-> t, worker |-> w, arg |-> arg, ret |-> ret]

\* ---- MemoryManager (src/utils/memory-manager.js)
\* Sizes are bytes.  A blob is named by a number; blob b holds BlobSize(b)
\* bytes.  activeBlobs is a Set in the code and keeps insertion order, so it
\* is a sequence without repetitions here; objectURLs is a set of url names.
BlobSize(b) == b * 32 * MB

Blobs == 1..MaxBlobs

\* What the page gives the constructor: performance.memory with its heap
\* limit (Chrome, Edge), or none and a mobile or desktop user agent.
Environments ==
    {[memory |-> TRUE, jsHeapSizeLimit |-> 1000 * MB, isMobile |-> FALSE],
     [memory |-> FALSE, jsHeapSizeLimit |-> 0, isMobile |-> TRUE],
     [memory |-> FALSE, jsHeapSizeLimit |-> 0, isMobile |-> FALSE]}

\* performance.memory.usedJSHeapSize, read anew by every call.
UsedHeapSizes == {0, 500 * MB}

\* The memory a caller asks hasAvailableMemory for.
RequiredSizes == {0, 100 * MB, 600 * MB, 1024 * MB}

\* floor(x * tenths / 10) without leaving 32 bits.
floorTenths(x, tenths) == tenths * (x \div 10) + (tenths * (x % 10)) \div 10

NoCall == [op |-> "none", required |-> 0, usage |-> 0, ret |-> FALSE,
           cleaned |-> FALSE]

\* memoryManagerInstance = null
memoryManagerStart ==
    [instance |-> FALSE, memory |-> FALSE, maxMemoryUsage |-> 0,
     currentMemoryEstimate |-> 0, activeBlobs |-> <<>>, objectURLs |-> {},
     registers |-> 0, call |-> NoCall,
     conversionQueue |-> <<>>, isProcessing |-> FALSE, runs |-> <<>>,
     nextConversion |-> 1, disposes |-> 0,
     est |-> [c \in 1..MaxConversions |-> 0],
     started |-> [c \in 1..MaxConversions |-> 0],
     settled |-> [c \in 1..MaxConversions |-> "none"]]

calculateMaxMemory(env) ==
    IF env.memory THEN floorTenths(env.jsHeapSizeLimit, 7)
    ELSE IF env.isMobile THEN 256 * MB ELSE 1024 * MB

\* new MemoryManager()
newMemoryManager(env) ==
    [memoryManagerStart EXCEPT !.instance = TRUE, !.memory = env.memory,
                               !.maxMemoryUsage = calculateMaxMemory(env)]

\* used is performance.memory.usedJSHeapSize at the time of the call.
getCurrentMemoryUsage(m, used) ==
    IF m.memory THEN used ELSE m.currentMemoryEstimate

InBlobs(m, b) == \E i \in 1..Len(m.activeBlobs) : m.activeBlobs[i] = b

registerBlob(m, b) ==
    [m EXCEPT !.activeBlobs = IF InBlobs(m, b) THEN @ ELSE Append(@, b),
              !.currentMemoryEstimate = @ + BlobSize(b),
              !.registers = @ + 1]

unregisterBlob(m, b) ==
    IF InBlobs(m, b)
    THEN [m EXCEPT !.activeBlobs = SelectSeq(@, LAMBDA x : x # b),
                   !.currentMemoryEstimate = @ - BlobSize(b)]
    ELSE m

\* The smallest url name not in objectURLs: URL.createObjectURL gives a url
\* no tracked url equals.
freshURL(m) == CHOOSE u \in 1..(MaxURLs + 1) :
                 /\ u \notin m.objectURLs
                 /\ \A v \in 1..(u - 1) : v \in m.objectURLs

createObjectURL(m, b) ==
    registerBlob([m EXCEPT !.objectURLs = @ \cup {freshURL(m)}], b)

revokeObjectURL(m, u) == [m EXCEPT !.objectURLs = @ \ {u}]

cleanup(m) ==
    [m EXCEPT !.objectURLs = {}, !.activeBlobs = <<>>,
              !.currentMemoryEstimate = 0]

RECURSIVE unregisterAll(_, _)
unregisterAll(m, bs) ==
    IF bs = <<>> THEN m
    ELSE unregisterAll(unregisterBlob(m, Head(bs)), Tail(bs))

\* shown: the tracked urls some img of the document displays.
triggerCleanup(m, shown) ==
    LET n == Len(m.activeBlobs)
        keepCount == floorTenths(n, 3)
        blobsToRemove == SubSeq(m.activeBlobs, keepCount + 1, n)
        m1 == unregisterAll(m, blobsToRemove)
    IN [m1 EXCEPT !.objectURLs = @ \cap shown]

hasAvailableMemory(m, used, requiredMemory, shown) ==
    LET currentUsage == getCurrentMemoryUsage(m, used)
        projected == currentUsage + requiredMemory
        over == projected > floorTenths(m.maxMemoryUsage, 8)
        m1 == IF over THEN triggerCleanup(m, shown) ELSE m
    IN [m1 EXCEPT !.call = [op |-> "hasAvailableMemory",
                            required |-> requiredMemory,
                            usage |-> currentUsage,
                            ret |-> projected < m.maxMemoryUsage,
                            cleaned |-> over]]

\* ---- MemoryManager.queueConversion / processQueue
\* A conversion is named by a number; est[c] is its estimatedMemory,
\* started[c] counts the calls of its task function, settled[c] is the state
\* of the promise queueConversion returned.  A run is one invocation of
\* processQueue suspended at an await: "poll" in delay(100) of the memory
\* loop, "task" in item.task(), "next" in delay(10) before the next item.
estimateMemoryRequirement(fileSize) == 5 * fileSize + (fileSize + 1) \div 2

\* The sizes of the files submitted for conversion.
FileSizes == {20 * MB, 200 * MB}

Estimates == {estimateMemoryRequirement(size) : size \in FileSizes}

Conversions == 1..MaxConversions

\* processQueue() up to its first await: the item at the head is started if
\* hasAvailableMemory admits it, else the run waits in delay(100).
mmProcessQueue(m, used, shown) ==
    IF m.conversionQueue = <<>> THEN [m EXCEPT !.isProcessing = FALSE]
    ELSE LET item == Head(m.conversionQueue)
             m1 == hasAvailableMemory([m EXCEPT !.isProcessing = TRUE], used,
                                      m.est[item], shown)
         IN IF m1.call.ret
            THEN [m1 EXCEPT !.started[item] = @ + 1,
                            !.runs = Append(@, [item |-> item, pc |-> "task"])]
            ELSE [m1 EXCEPT !.runs = Append(@, [item |-> item, pc |-> "poll"])]

queueConversion(m, estimatedMemory, used, shown) ==
    LET c == m.nextConversion
        m1 == [m EXCEPT !.nextConversion = @ + 1,
                        !.conversionQueue = Append(@, c),
                        !.est[c] = estimatedMemory,
                        !.settled[c] = "pending"]
    IN IF ~m1.isProcessing THEN mmProcessQueue(m1, used, shown) ELSE m1

\* delay(100) of run r is over: triggerCleanup(), then the loop condition.
mmPollResume(m, r, used, shown) ==
    LET item == m.runs[r].item
        m1 == hasAvailableMemory(triggerCleanup(m, shown), used, m.est[item],
                                 shown)
    IN IF m1.call.ret
       THEN [m1 EXCEPT !.started[item] = @ + 1, !.runs[r].pc = "task"]
       ELSE m1

\* item.task() of run r settles: the promise is resolved or rejected, the
\* head of the queue is shifted, and the run goes on to the next item.
mmTaskSettle(m, r, outcome) ==
    LET item == m.runs[r].item
        m1 == [m EXCEPT !.settled[item] =
                            IF @ = "pending" THEN outcome ELSE @,
                        !.conversionQueue =
                            IF @ = <<>> THEN @ ELSE Tail(@)]
    IN IF m1.conversionQueue # <<>>
       THEN [m1 EXCEPT !.runs[r].pc = "next"]
       ELSE [m1 EXCEPT !.isProcessing = FALSE,
                       !.runs = SubSeq(@, 1, r - 1) \o SubSeq(@, r + 1, Len(@))]

\* delay(10) of run r is over: this.processQueue().
mmNextResume(m, r, used, shown) ==
    mmProcessQueue(
        [m EXCEPT !.runs = SubSeq(@, 1, r - 1) \o SubSeq(@, r + 1, Len(@))],
        used, shown)

\* dispose(): cleanup(), an empty conversionQueue and isProcessing = false;
\* the processQueue runs that wait at an await go on afterwards.
dispose(m) ==
    [cleanup(m) EXCEPT !.conversionQueue = <<>>,
                       !.isProcessing = FALSE,
                       !.disposes = @ + 1]

\* ---- ChunkedProcessor.processItem / waitForMemory
\* The time a delay(100) takes: a timer fires no earlier than asked, and the
\* timers of the page are throttled here so that maxWait passes in a few polls.
Delays == {10000, 20000}

\* calls holds the processInChunks calls made so far, each with its position
\* in the loops of processInChunks and processChunk; before is the chunkSize
\* read when a processFiles call started with no other one in flight.
chunkedProcessorStart ==
    [activeOperations |-> 0, items |-> <<>>,
     instance |-> FALSE, chunkSize |-> 0, maxConcurrent |-> 0,
     calls |-> <<>>, before |-> 0, disposes |-> 0, configures |-> 0]

\* The loop of waitForMemory from its condition on, elapsed ms after
\* startTime, for item i.
waitForMemoryLoop(m, p, i, elapsed, used, shown) ==
    LET m1 == hasAvailableMemory(m, used, p.items[i].required, shown)
    IN IF m1.call.ret
       THEN [mm |-> m1, cp |-> [p EXCEPT !.items[i].pc = "processor"]]
       ELSE IF elapsed > maxWait
       THEN [mm |-> m1,
             cp |-> [p EXCEPT !.items[i].pc = "done",
                              !.items[i].outcome = "timeout",
                              !.items[i].elapsed = elapsed,
                              !.activeOperations = @ - 1]]
       ELSE [mm |-> triggerCleanup(m1, shown),
             cp |-> [p EXCEPT !.items[i].pc = "wait",
                              !.items[i].elapsed = elapsed]]

\* processItem(item) up to its first await.
processItem(m, p, fileSize, used, shown) ==
    LET memoryRequired == estimateMemoryRequirement(fileSize)
        i == Len(p.items) + 1
        p1 == [p EXCEPT !.activeOperations = @ + 1,
                        !.items = Append(@, [required |-> memoryRequired,
                                             pc |-> "processor",
                                             elapsed |-> 0,
                                             outcome |-> "pending"])]
        m1 == hasAvailableMemory(m, used, memoryRequired, shown)
    IN IF m1.call.ret THEN [mm |-> m1, cp |-> p1]
       ELSE waitForMemoryLoop(m1, p1, i, 0, used, shown)

\* processor(item) of item i settles: kind says whether it threw ("error"),
\* returned the Blob b ("blob") or returned something else ("value").
processorSettle(m, p, i, kind, b) ==
    [mm |-> IF kind = "blob" THEN registerBlob(m, b) ELSE m,
     cp |-> [p EXCEPT !.items[i].pc = "done",
                      !.items[i].outcome =
                          IF kind = "error" THEN "error" ELSE "result",
                      !.activeOperations = @ - 1]]

\* ---- ChunkedProcessor: processInChunks, processChunk, processFiles, dispose
\* The options of getChunkedProcessor; 0 stands for an option left out.
ProcessorOptions == [chunkSize : {0, 1}, maxConcurrent : {0, 1}]

\* new ChunkedProcessor(options)
newChunkedProcessor(options) ==
    [chunkedProcessorStart EXCEPT
        !.instance = TRUE,
        !.chunkSize = IF options.chunkSize # 0 THEN options.chunkSize
                      ELSE defaultChunkSize,
        !.maxConcurrent = IF options.maxConcurrent # 0
                          THEN options.maxConcurrent
                          ELSE defaultMaxConcurrent]

\* The options of configure(): keys are the options that are given.
ConfigureOptions ==
    {[keys |-> {"chunkSize"}, chunkSize |-> 1, maxConcurrent |-> 0],
     [keys |-> {"maxConcurrent"}, chunkSize |-> 0, maxConcurrent |-> 2],
     [keys |-> {"chunkSize", "maxConcurrent"}, chunkSize |-> 0,
      maxConcurrent |-> 0]}

Max(a, b) == IF a > b THEN a ELSE b

\* configure(options)
configure(p, options) ==
    [p EXCEPT !.chunkSize = IF "chunkSize" \in options.keys
                            THEN Max(1, options.chunkSize) ELSE @,
              !.maxConcurrent = IF "maxConcurrent" \in options.keys
                                THEN Max(1, options.maxConcurrent) ELSE @,
              !.configures = @ + 1]

\* createChunks(items) for n items: the lengths of the chunks.
RECURSIVE createChunks(_, _)
createChunks(n, chunkSize) ==
    IF n <= 0 THEN <<>>
    ELSE <<Min(n, chunkSize)>> \o createChunks(n - chunkSize, chunkSize)

\* The index in items of the first item of chunk k (counted from 0).
RECURSIVE chunkStart(_, _)
chunkStart(chunks, k) ==
    IF k = 0 THEN 0 ELSE chunkStart(chunks, k - 1) + chunks[k]

AllSettled(p, c) ==
    \A i \in p.calls[c].promises : p.items[i].pc = "done"

\* processInChunks returns; the finally block of processFiles then restores
\* the chunk size it read.
chunksReturn(p, c) ==
    [p EXCEPT !.calls[c].pc = "done",
              !.chunkSize = IF p.calls[c].kind = "files"
                            THEN p.calls[c].originalChunkSize ELSE @]

\* processInChunks after `await this.processChunk(...)` of call c.
afterChunk(p, c) ==
    IF p.calls[c].chunkIndex < Len(p.calls[c].chunks) - 1
    THEN [p EXCEPT !.calls[c].pc = "chunkDelay"]
    ELSE chunksReturn(p, c)

\* The for loop of processChunk from item i of the chunk on, for call c.
RECURSIVE processChunkLoop(_, _, _, _, _)
processChunkLoop(m, p, c, used, shown) ==
    LET call == p.calls[c]
        chunk == call.chunks[call.chunkIndex + 1]
    IN IF call.i >= chunk
       THEN [mm |-> m,
             cp |-> IF AllSettled(p, c) THEN afterChunk(p, c)
                    ELSE [p EXCEPT !.calls[c].pc = "allSettled"]]
       ELSE IF p.activeOperations >= p.maxConcurrent
       THEN [mm |-> m, cp |-> [p EXCEPT !.calls[c].pc = "delay"]]
       ELSE LET item == call.items[chunkStart(call.chunks, call.chunkIndex)
                                   + call.i + 1]
                s == processItem(m, p, item, used, shown)
                p1 == [s.cp EXCEPT !.calls[c].i = @ + 1,
                                   !.calls[c].promises =
                                       @ \cup {Len(s.cp.items)}]
            IN processChunkLoop(s.mm, p1, c, used, shown)

\* processInChunks(items, processor) up to its first await; items holds the
\* sizes of the files.
processInChunks(m, p, items, kind, originalChunkSize, used, shown) ==
    LET c == Len(p.calls) + 1
        p1 == [p EXCEPT !.calls =
                  Append(@, [kind |-> kind, items |-> items,
                             chunks |-> createChunks(Len(items), p.chunkSize),
                             chunkIndex |-> 0, i |-> 0, promises |-> {},
                             pc |-> "loop",
                             originalChunkSize |-> originalChunkSize])]
    IN IF Len(items) = 0 THEN [mm |-> m, cp |-> chunksReturn(p1, c)]
       ELSE processChunkLoop(m, p1, c, used, shown)

\* delay(chunkDelay) has passed for call c: the next chunk.
chunkDelayResume(m, p, c, used, shown) ==
    processChunkLoop(m, [p EXCEPT !.calls[c].chunkIndex = @ + 1,
                                  !.calls[c].i = 0,
                                  !.calls[c].promises = {},
                                  !.calls[c].pc = "loop"],
                     c, used, shown)

\* processor(item) of item i settles, and with it the promise of processChunk
\* when it was the last one the call was waiting for.
RECURSIVE resumeSettled(_, _)
resumeSettled(p, c) ==
    IF c > Len(p.calls) THEN p
    ELSE resumeSettled(IF p.calls[c].pc = "allSettled" /\ AllSettled(p, c)
                       THEN afterChunk(p, c) ELSE p,
                       c + 1)

chunkItemSettle(m, p, i, kind) ==
    LET s == processorSettle(m, p, i, kind, 1)
    IN [mm |-> s.mm, cp |-> resumeSettled(s.cp, 1)]

\* [...files].sort((a, b) => sizeA - sizeB)
RECURSIVE insertBySize(_, _)
insertBySize(sorted, size) ==
    IF sorted = <<>> THEN <<size>>
    ELSE IF size < Head(sorted) THEN <<size>> \o sorted
    ELSE <<Head(sorted)>> \o insertBySize(Tail(sorted), size)

RECURSIVE sortBySize(_)
sortBySize(files) ==
    IF files = <<>> THEN <<>>
    ELSE insertBySize(sortBySize(SubSeq(files, 1, Len(files) - 1)),
                      files[Len(files)])

RECURSIVE totalSizeOf(_)
totalSizeOf(files) ==
    IF files = <<>> THEN 0 ELSE Head(files) + totalSizeOf(Tail(files))

\* calculateAdaptiveChunkSize(totalSize / n)
calculateAdaptiveChunkSize(totalSize, n) ==
    IF totalSize < MB * n THEN 10
    ELSE IF totalSize < 10 * MB * n THEN 5
    ELSE IF totalSize < 50 * MB * n THEN 3
    ELSE 1

FilesInFlight(p) ==
    {c \in 1..Len(p.calls) :
        p.calls[c].kind = "files" /\ p.calls[c].pc # "done"}

\* processFiles(files, processor) up to its first await.
processFiles(m, p, files, used, shown) ==
    LET sortedFiles == sortBySize(files)
        adaptiveChunkSize ==
            calculateAdaptiveChunkSize(totalSizeOf(sortedFiles),
                                       Len(sortedFiles))
        originalChunkSize == p.chunkSize
        p1 == [p EXCEPT !.chunkSize = adaptiveChunkSize,
                        !.before = IF FilesInFlight(p) = {}
                                   THEN originalChunkSize ELSE @]
    IN processInChunks(m, p1, sortedFiles, "files", originalChunkSize,
                       used, shown)

\* ChunkedProcessor.dispose(); processingQueue and isProcessing, which it
\* also resets, are written nowhere else.
disposeProcessor(p) ==
    [p EXCEPT !.activeOperations = 0, !.disposes = @ + 1]

\* ---- ProgressTracker (src/utils/progress-tracker.js)
\* this.stats without the clock readings (startTime, endTime and the
\* estimates derived from them); calls counts the calls made, op is the last.
progressTrackerStart ==
    [totalFiles |-> 0, processedFiles |-> 0, failedFiles |-> 0,
     cancelledFiles |-> 0, totalBytes |-> 0, processedBytes |-> 0,
     calls |-> 0, op |-> "constructor"]

\* The sizes of tracked files and the percentages reported for them.
TrackedSizes == {100, 250}

Percentages == {0, 50, 100}

trackerReset(p) ==
    [progressTrackerStart EXCEPT !.calls = p.calls, !.op = "reset"]

startTracking(p, totalFiles, totalBytes) ==
    [p EXCEPT !.totalFiles = totalFiles, !.totalBytes = totalBytes,
              !.op = "startTracking"]

updateFileProgress(p, fileSize, progress) ==
    LET progressBytes == (fileSize * progress) \div 100
    IN [p EXCEPT !.processedBytes = Min(@ + progressBytes, p.totalBytes),
                 !.op = "updateFileProgress"]

completeFile(p) ==
    [p EXCEPT !.processedFiles = @ + 1, !.op = "completeFile"]

failFile(p) ==
    [p EXCEPT !.failedFiles = @ + 1, !.processedFiles = @ + 1,
              !.op = "failFile"]

cancelFile(p) ==
    [p EXCEPT !.cancelledFiles = @ + 1, !.op = "cancelFile"]

finish(p) == [p EXCEPT !.op = "finish"]

emitWorkerError(s) == [s EXCEPT !.evWorkerError = @ + 1]

\* getMetrics().successRate, which getHealthStatus().status.successRate
\* repeats: the quotient (processed - failed) / processed * 100 as the
\* fraction num / den, and 0 while nothing was processed.
successRate(s) ==
    IF s.totalTasksProcessed > 0
    THEN [num |-> (s.totalTasksProcessed - s.totalTasksFailed) * 100,
          den |-> s.totalTasksProcessed]
    ELSE [num |-> 0, den |-> 1]

\* getHealthStatus().healthy
healthy(s) == ~s.isDestroyed /\ s.failedWorkerCreations < maxWorkerFailures

\* createWorker inside the try of initializeWorkerPools: the catch counts the
\* failure once more.
tryCreateWorker(s, type) ==
    IF createThrows(s)
    THEN [createWorker(s, type) EXCEPT !.failedWorkerCreations = @ + 1]
    ELSE createWorker(s, type)

\* The browser serves `quota` calls of new Worker(...) during construction
\* and refuses the calls from then on; n counts the calls made so far.
refuseFrom(s, n, quota) == [s EXCEPT !.workersFail = @ \/ n >= quota]

\* The numbers of new Worker(...) calls a browser may serve before it
\* refuses; the constructor makes at most 2 * initialWorkers calls.
WorkerQuotas == 0..(2 * initialWorkers)

\* The constructor and initializeWorkerPools: min(2, maxWorkers) workers per
\* pool, created alternately single, batch; 'workerError' is emitted when
\* maxWorkerFailures failures were counted.
RECURSIVE initializeWorkerPools(_, _, _)
initializeWorkerPools(s, i, quota) ==
    IF i >= Min(initialWorkers, s.maxWorkers)
    THEN IF s.failedWorkerCreations >= maxWorkerFailures
         THEN emitWorkerError(s) ELSE s
    ELSE initializeWorkerPools(
             tryCreateWorker(
                 refuseFrom(tryCreateWorker(refuseFrom(s, 2 * i, quota), "single"),
                            2 * i + 1, quota),
                 "batch"),
             i + 1, quota)

Blank(mc) ==
    [maxConcurrent |-> mc, isPaused |-> FALSE, isDestroyed |-> FALSE,
     nextId |-> 1,
     ttype |-> [t \in Tasks |-> "none"],
     prio |-> [t \in Tasks |-> 0],
     retries |-> [t \in Tasks |-> 0],
     status |-> [t \in Tasks |-> "none"],
     queue |-> <<>>,
     active |-> [t \in Tasks |-> NoWorker],
     workerPool |-> <<>>, batchWorkerPool |-> <<>>,
     wtype |-> [w \in WorkerIds |-> "none"],
     busy |-> [w \in WorkerIds |-> FALSE],
     taskId |-> [w \in WorkerIds |-> NoTask],
     terminated |-> [w \in WorkerIds |-> FALSE],
     timers |-> [t \in Tasks |-> 0],
     pqPending |-> 0,
     inbox |-> [w \in WorkerIds |-> <<>>],
     outbox |-> [w \in WorkerIds |-> <<>>],
     running |-> [w \in WorkerIds |-> <<>>],
     wCancelled |-> [w \in WorkerIds |-> FALSE],
     evComplete |-> [t \in Tasks |-> 0],
     evError |-> [t \in Tasks |-> 0],
     evCancelled |-> [t \in Tasks |-> 0],
     dispatched |-> [t \in Tasks |-> 0],
     releasedIdle |-> FALSE,
     cancels |-> 0,
     cancelledPending |-> {},
     cancelSent |-> [t \in Tasks |-> NoWorker],
     evProgress |-> [t \in Tasks |-> NoProgress],
     stage |-> [w \in WorkerIds |-> <<>>],
     teardownTimer |-> "idle",
     eventHandlers |-> {},
     workersFail |-> FALSE,
     failedWorkerCreations |-> 0,
     creationFailures |-> 0,
     evWorkerError |-> 0,
     isMock |-> [w \in WorkerIds |-> FALSE],
     totalTasksProcessed |-> 0,
     totalTasksFailed |-> 0,
     maxWorkers |-> defaultMaxWorkers,
     uncaught |-> 0,
     assignedBusy |-> FALSE,
     crashes |-> 0]

InitState(mc) == initializeWorkerPools(Blank(mc), 0, 2 * initialWorkers)

InitWith(s) ==
    /\ maxConcurrent = s.maxConcurrent
    /\ isPaused = s.isPaused
    /\ isDestroyed = s.isDestroyed
    /\ nextId = s.nextId
    /\ ttype = s.ttype
    /\ prio = s.prio
    /\ retries = s.retries
    /\ status = s.status
    /\ queue = s.queue
    /\ active = s.active
    /\ workerPool = s.workerPool
    /\ batchWorkerPool = s.batchWorkerPool
    /\ wtype = s.wtype
    /\ busy = s.busy
    /\ taskId = s.taskId
    /\ terminated = s.terminated
    /\ timers = s.timers
    /\ pqPending = s.pqPending
    /\ inbox = s.inbox
    /\ outbox = s.outbox
    /\ running = s.running
    /\ wCancelled = s.wCancelled
    /\ evComplete = s.evComplete
    /\ evError = s.evError
    /\ evCancelled = s.evCancelled
    /\ dispatched = s.dispatched
    /\ releasedIdle = s.releasedIdle
    /\ cancels = s.cancels
    /\ cancelledPending = s.cancelledPending
    /\ cancelSent = s.cancelSent
    /\ assignedBusy = s.assignedBusy
    /\ crashes = s.crashes
    /\ uncaught = s.uncaught
    /\ maxWorkers = s.maxWorkers
    /\ totalTasksFailed = s.totalTasksFailed
    /\ totalTasksProcessed = s.totalTasksProcessed
    /\ isMock = s.isMock
    /\ evWorkerError = s.evWorkerError
    /\ creationFailures = s.creationFailures
    /\ failedWorkerCreations = s.failedWorkerCreations
    /\ workersFail = s.workersFail
    /\ eventHandlers = s.eventHandlers
    /\ teardownTimer = s.teardownTimer
    /\ stage = s.stage
    /\ evProgress = s.evProgress
    /\ last = Op("constructor", NoTask, NoWorker, "", "")
    /\ sw = singleWorkerStart
    /\ bw = batchWorkerStart
    /\ mm = memoryManagerStart
    /\ cp = chunkedProcessorStart
    /\ pt = progressTrackerStart
    /\ so = submittedOptionsStart
    /\ sq = simpleQueueStart

Init == \E mc \in 1..MaxConcurrentOpt : InitWith(InitState(mc))

\* The constructor called with the options maxConcurrent and maxWorkers, in
\* a browser that may refuse to create workers.
InitSmallPool ==
    \E mc \in 1..MaxConcurrentOpt, mw \in 1..MaxWorkersOpt, quota \in WorkerQuotas :
        InitWith(initializeWorkerPools(
                     [Blank(mc) EXCEPT !.maxWorkers = mw], 0, quota))

\* The constructor in a browser that may refuse to create workers, from the
\* first call of new Worker(...) or from a later one.
InitFailing ==
    \E mc \in 1..MaxConcurrentOpt, quota \in WorkerQuotas :
        InitWith(initializeWorkerPools(Blank(mc), 0, quota))

\* --------------------------------------------------------------- actions
\* The workers of the two pools.
Pooled == {workerPool[i] : i \in 1..Len(workerPool)}
              \cup {batchWorkerPool[i] : i \in 1..Len(batchWorkerPool)}

\* A posted command is received before anything else happens.  Receiving it
\* later changes nothing: the reception touches only the worker's own state
\* and its outbox, so it commutes with every step of the queue and with the
\* end of a conversion in the worker.
Delivered == \A w \in WorkerIds : inbox[w] = <<>>

\* Calls of the public API.  They may come from the caller's own microtasks
\* and so may run between two passes of a suspended processQueue.
AddFile ==
    /\ Delivered
    /\ nextId <= MaxTasks
    /\ ~isDestroyed
    /\ \E p \in Priorities :
          Commit(addFile(Cur, p), Op("addFile", nextId, NoWorker, "", ""))

AddBatchUpTo(n) ==
    /\ Delivered
    /\ nextId <= n
    /\ ~isDestroyed
    /\ \E p \in Priorities :
          Commit(addBatch(Cur, p), Op("addBatch", nextId, NoWorker, "", ""))

AddBatch == AddBatchUpTo(MaxTasks)

\* The environment makes at most MaxCancels cancel calls, raises at most
\* MaxCrashes worker.onerror events and MaxUncaught uncaught errors inside
\* workers, and at most `joint` of the three together.
\* cancelTask on an id that is neither queued nor active returns false and
\* changes nothing: such calls are stuttering steps.
CancelTaskWithin(joint) ==
    /\ Delivered
    /\ cancels < MaxCancels
    /\ cancels + crashes + uncaught < joint
    /\ \E t \in Tasks :
          /\ cancelTaskBranch(Cur, t) # "none"
          /\ Commit(cancelTask([Cur EXCEPT !.cancels = @ + 1], t),
                    Op("cancelTask", t, active[t], cancelTaskBranch(Cur, t),
                       cancelTaskReturn(Cur, t)))

CancelTask == CancelTaskWithin(MaxDisturbances)

CancelAll ==
    /\ Delivered
    /\ cancels < MaxCancels
    /\ cancels + crashes + uncaught < MaxDisturbances
    /\ Len(queue) > 0 \/ activeSize(Cur) > 0
    /\ Commit(cancelAll([Cur EXCEPT !.cancels = @ + 1]),
              Op("cancelAll", NoTask, NoWorker, "", ""))

\* A suspended processQueue resumes after `await executeTask(...)`.
ProcessQueueResume ==
    /\ Delivered
    /\ pqPending > 0
    /\ Commit(processQueueLoop([Cur EXCEPT !.pqPending = @ - 1]),
              Op("processQueue", NoTask, NoWorker, "", ""))

\* worker.onmessage: the queue handles the oldest message of a worker.
HandleWorkerMessage ==
    /\ Delivered
    /\ pqPending = 0
    /\ \E w \in Pooled :
          /\ outbox[w] # <<>>
          /\ Commit(handleWorkerMessage([Cur EXCEPT !.outbox[w] = Tail(@)], w,
                                        Head(outbox[w])),
                    Op("handleWorkerMessage", taskId[w], w, Head(outbox[w]).type,
                       Head(outbox[w]).outcome))

\* worker.onerror
HandleWorkerErrorWithin(joint) ==
    /\ Delivered
    /\ pqPending = 0
    /\ crashes < MaxCrashes
    /\ cancels + crashes + uncaught < joint
    /\ \E w \in Pooled, arg \in ErrorArgs :
          /\ ~isMock[w]
          /\ Commit(handleWorkerError([Cur EXCEPT !.crashes = @ + 1], w, arg),
                    Op("handleWorkerError", taskId[w], w, arg, ""))

HandleWorkerError == HandleWorkerErrorWithin(MaxDisturbances)

RetryTimer ==
    /\ Delivered
    /\ pqPending = 0
    /\ \E t \in Tasks :
          /\ timers[t] > 0
          /\ Commit(retryTimer(Cur, t), Op("retryTimer", t, NoWorker, "", ""))

WorkerOnMessage ==
    \E w \in Pooled :
        /\ inbox[w] # <<>>
        /\ Commit(workerOnMessage(Cur, w), Op("worker", NoTask, NoWorker, "", ""))

\* A timer of a conversion fires, while fewer than MaxUnhandled messages of
\* its worker wait for the queue.
WorkerTimeout ==
    /\ Delivered
    /\ \E w \in Pooled :
          \E i \in 1..Len(running[w]), supported \in BOOLEAN :
              /\ Len(outbox[w]) < MaxUnhandled
              /\ stage[w][i].pc # "decode"
              /\ Commit(workerTimeout(Cur, w, i, supported),
                        Op("worker", NoTask, NoWorker, "", ""))

\* The decoder of a conversion resolves or rejects.
WorkerDecoded ==
    /\ Delivered
    /\ \E w \in Pooled :
          \E i \in 1..Len(running[w]), decoded \in BOOLEAN :
              /\ Len(outbox[w]) < MaxUnhandled
              /\ stage[w][i].pc = "decode"
              /\ Commit(workerDecoded(Cur, w, i, decoded),
                        Op("worker", NoTask, NoWorker, "", ""))

\* The progress interval of the single-file worker fires while the decoder
\* runs.
WorkerInterval ==
    /\ Delivered
    /\ \E w \in Pooled :
          \E i \in 1..Len(running[w]), elapsed \in ElapsedTimes :
              /\ Len(outbox[w]) < MaxUnhandled
              /\ wtype[w] = "single"
              /\ stage[w][i].pc = "decode"
              /\ elapsed > stage[w][i].elapsed
              /\ Commit(workerInterval(Cur, w, i, elapsed),
                        Op("worker", NoTask, NoWorker, "", ""))

\* An uncaught error in a worker that runs a conversion: self.onerror, at
\* most `limit` times and, with the cancel calls and the worker.onerror
\* events, at most `joint` times.
WorkerOnErrorWithin(limit, joint) ==
    /\ Delivered
    /\ uncaught < limit
    /\ cancels + crashes + uncaught < joint
    /\ \E w \in Pooled :
          /\ Len(outbox[w]) < MaxUnhandled
          /\ running[w] # <<>>
          /\ Commit(workerOnError([Cur EXCEPT !.uncaught = @ + 1], w),
                    Op("worker", NoTask, NoWorker, "", ""))

WorkerOnError == WorkerOnErrorWithin(MaxUncaught, MaxDisturbances)

UncaughtError == WorkerOnErrorWithin(MaxUncaught, MaxUncaught)

\* pause() and resume(); a pause() of a paused queue and a resume() of a
\* running queue change nothing.
Pause ==
    /\ Delivered
    /\ ~isPaused
    /\ Commit(pause(Cur), Op("pause", NoTask, NoWorker, "", destroyedGuard(Cur)))

Resume ==
    /\ Delivered
    /\ isPaused
    /\ Commit(resume(Cur), Op("resume", NoTask, NoWorker, "", destroyedGuard(Cur)))

\* on(event, handler) for the events the caller listens to.
ListenedEvents == {"cancelled"}

On ==
    /\ Delivered
    /\ \E event \in ListenedEvents :
          /\ event \notin eventHandlers
          /\ Commit(on(Cur, event), Op("on", NoTask, NoWorker, event, ""))

Off ==
    /\ Delivered
    /\ \E event \in ListenedEvents :
          /\ event \in eventHandlers
          /\ Commit(off(Cur, event), Op("off", NoTask, NoWorker, event, ""))

\* destroy(); a second call returns at once.
Destroy ==
    /\ Delivered
    /\ ~isDestroyed
    /\ Commit(destroy(Cur), Op("destroy", NoTask, NoWorker, "", ""))

\* The teardown timer of destroy() fires.
Teardown ==
    /\ Delivered
    /\ pqPending = 0
    /\ teardownTimer = "armed"
    /\ Commit(teardown(Cur), Op("teardown", NoTask, NoWorker, "", ""))

\* Calls of the mutating methods on a destroyed queue.  addFile, addBatch,
\* pause and resume throw before they touch anything; cancelTask and
\* cancelAll have no such guard.
DestroyedAddFile ==
    /\ Delivered
    /\ isDestroyed
    /\ Commit(Cur, Op("addFile", NoTask, NoWorker, "", destroyedGuard(Cur)))

DestroyedAddBatch ==
    /\ Delivered
    /\ isDestroyed
    /\ Commit(Cur, Op("addBatch", NoTask, NoWorker, "", destroyedGuard(Cur)))

DestroyedPause ==
    /\ Delivered
    /\ isDestroyed
    /\ Commit(pause(Cur), Op("pause", NoTask, NoWorker, "", destroyedGuard(Cur)))

DestroyedResume ==
    /\ Delivered
    /\ isDestroyed
    /\ Commit(resume(Cur), Op("resume", NoTask, NoWorker, "", destroyedGuard(Cur)))

DestroyedCancelTask ==
    /\ Delivered
    /\ isDestroyed
    /\ cancels < MaxCancels
    /\ \E t \in Tasks :
          Commit(cancelTask([Cur EXCEPT !.cancels = @ + 1], t),
                 Op("cancelTask", t, active[t], cancelTaskBranch(Cur, t),
                    cancelTaskReturn(Cur, t)))

DestroyedCancelAll ==
    /\ Delivered
    /\ isDestroyed
    /\ cancels < MaxCancels
    /\ Commit(cancelAll([Cur EXCEPT !.cancels = @ + 1]),
              Op("cancelAll", NoTask, NoWorker, "", ""))

\* ---- the single-file worker in detail
queueVars ==
    <<maxConcurrent, isPaused, isDestroyed, nextId, ttype, prio, retries,
      status, queue, active, workerPool, batchWorkerPool, wtype,
      busy, taskId, terminated, timers, pqPending, inbox, outbox, running,
      wCancelled, evComplete, evError, evCancelled, dispatched,
      releasedIdle, assignedBusy, cancels, cancelledPending,
      cancelSent, crashes, evProgress, stage, teardownTimer, eventHandlers,
      workersFail,
      failedWorkerCreations,
      creationFailures,
      evWorkerError,
      isMock,
      totalTasksProcessed,
      totalTasksFailed,
      maxWorkers,
      uncaught,
      last>>

\* The queue posts 'convert' to a worker that holds no task.
SingleConvert ==
    /\ sw.released
    /\ Len(sw.convs) < MaxConverts
    /\ \E target \in TargetTypes : sw' = singleOnConvert(sw, target)
    /\ UNCHANGED <<queueVars, bw, mm, cp, pt, so, sq>>

\* The queue posts 'cancel' to a worker that holds a task.
SingleCancel ==
    /\ ~sw.released
    /\ sw' = singleOnCancel(sw)
    /\ UNCHANGED <<queueVars, bw, mm, cp, pt, so, sq>>

\* A setTimeout delay of a conversion ends.
SingleTimeout ==
    /\ \E c \in 1..Len(sw.convs) :
          \/ sw.convs[c].pc = "read" /\ sw' = singleAfterRead(sw, c)
          \/ sw.convs[c].pc = "encode1" /\ sw' = singleAfterEncode1(sw, c)
          \/ sw.convs[c].pc = "encode2" /\ sw' = singleAfterEncode2(sw, c)
    /\ UNCHANGED <<queueVars, bw, mm, cp, pt, so, sq>>

\* The progress interval of a conversion fires while the decoder runs.
SingleInterval ==
    /\ \E c \in 1..Len(sw.convs), elapsed \in ElapsedTimes :
          /\ sw.convs[c].pc = "decode"
          /\ elapsed > sw.convs[c].elapsed
          /\ sw' = singleInterval(sw, c, elapsed)
    /\ UNCHANGED <<queueVars, bw, mm, cp, pt, so, sq>>

\* The decoder of a conversion returns or throws.
SingleDecoded ==
    /\ \E c \in 1..Len(sw.convs), decoded \in BOOLEAN :
          /\ sw.convs[c].pc = "decode"
          /\ sw' = singleAfterDecode(sw, c, decoded)
    /\ UNCHANGED <<queueVars, bw, mm, cp, pt, so, sq>>

\* An uncaught error in the worker, while a conversion runs or none does.
SingleOnError ==
    /\ sw.uncaught < MaxUncaught
    /\ \E c \in 0..Len(sw.convs) :
          /\ c > 0 => sw.convs[c].pc # "done"
          /\ sw' = singleOnError(sw, c)
    /\ UNCHANGED <<queueVars, bw, mm, cp, pt, so, sq>>

SingleWorkerNext ==
    \/ SingleConvert
    \/ SingleCancel
    \/ SingleTimeout
    \/ SingleInterval
    \/ SingleDecoded
    \/ SingleOnError

SpecSingleWorker == Init /\ [][SingleWorkerNext]_vars

\* ---- the batch worker in detail
BatchTargetTypes == {"jpeg", "gif"}

\* The queue posts 'convert-batch' to a worker that holds no task.
BatchConvert ==
    /\ bw.released
    /\ Len(bw.runs) < MaxBatches
    /\ \E n \in 1..MaxFiles, target \in BatchTargetTypes :
          bw' = batchOnConvert(bw, n, target)
    /\ UNCHANGED <<queueVars, sw, mm, cp, pt, so, sq>>

\* The queue posts 'cancel-batch' to a worker that holds a task.
BatchCancel ==
    /\ ~bw.released
    /\ bw' = batchOnCancel(bw)
    /\ UNCHANGED <<queueVars, sw, mm, cp, pt, so, sq>>

\* A setTimeout delay of convertSingleFile ends.
BatchTimeout ==
    /\ \E r \in 1..Len(bw.runs) :
          \/ bw.runs[r].pc = "load" /\ bw' = bwAfterLoad(bw, r)
          \/ bw.runs[r].pc = "encode" /\ bw' = bwAfterEncode(bw, r)
    /\ UNCHANGED <<queueVars, sw, mm, cp, pt, so, sq>>

\* The decoder returns or throws.
BatchDecoded ==
    /\ \E r \in 1..Len(bw.runs), decoded \in BOOLEAN :
          /\ bw.runs[r].pc = "decode"
          /\ bw' = bwAfterDecode(bw, r, decoded)
    /\ UNCHANGED <<queueVars, sw, mm, cp, pt, so, sq>>

\* An uncaught error in the worker, while a run is under way or none is.
BatchOnError ==
    /\ bw.uncaught < MaxUncaught
    /\ \E r \in 0..Len(bw.runs) :
          /\ r > 0 => bw.runs[r].pc # "done"
          /\ bw' = batchOnError(bw, r)
    /\ UNCHANGED <<queueVars, sw, mm, cp, pt, so, sq>>

BatchWorkerNext ==
    \/ BatchConvert
    \/ BatchCancel
    \/ BatchTimeout
    \/ BatchDecoded
    \/ BatchOnError

SpecBatchWorker == Init /\ [][BatchWorkerNext]_vars

\* ---- the MemoryManager's calls
\* getMemoryManager() when no instance exists yet.
GetMemoryManager ==
    /\ ~mm.instance
    /\ \E env \in Environments : mm' = newMemoryManager(env)
    /\ UNCHANGED <<queueVars, sw, bw, cp, pt, so, sq>>

RegisterBlobWithin(blobs, registers) ==
    /\ mm.instance
    /\ mm.registers < registers
    /\ \E b \in 1..blobs : mm' = [registerBlob(mm, b) EXCEPT !.call = NoCall]
    /\ UNCHANGED <<queueVars, sw, bw, cp, pt, so, sq>>

RegisterBlob == RegisterBlobWithin(MaxBlobs, MaxRegisters)

UnregisterBlob ==
    /\ mm.instance
    /\ \E b \in Blobs :
         /\ InBlobs(mm, b)
         /\ mm' = [unregisterBlob(mm, b) EXCEPT !.call = NoCall]
    /\ UNCHANGED <<queueVars, sw, bw, cp, pt, so, sq>>

CreateObjectURL ==
    /\ mm.instance
    /\ mm.registers < MaxRegisters
    /\ Cardinality(mm.objectURLs) < MaxURLs
    /\ \E b \in Blobs : mm' = [createObjectURL(mm, b) EXCEPT !.call = NoCall]
    /\ UNCHANGED <<queueVars, sw, bw, cp, pt, so, sq>>

RevokeObjectURL ==
    /\ mm.instance
    /\ \E u \in mm.objectURLs :
         mm' = [revokeObjectURL(mm, u) EXCEPT !.call = NoCall]
    /\ UNCHANGED <<queueVars, sw, bw, cp, pt, so, sq>>

Cleanup ==
    /\ mm.instance
    /\ mm.activeBlobs # <<>> \/ mm.objectURLs # {}
    /\ mm' = [cleanup(mm) EXCEPT !.call = NoCall]
    /\ UNCHANGED <<queueVars, sw, bw, cp, pt, so, sq>>

TriggerCleanup ==
    /\ mm.instance
    /\ mm.activeBlobs # <<>> \/ mm.objectURLs # {}
    /\ \E shown \in SUBSET mm.objectURLs :
         mm' = [triggerCleanup(mm, shown) EXCEPT
                   !.call = [NoCall EXCEPT !.op = "triggerCleanup"]]
    /\ UNCHANGED <<queueVars, sw, bw, cp, pt, so, sq>>

HasAvailableMemory ==
    /\ mm.instance
    /\ \E used \in UsedHeapSizes, required \in RequiredSizes,
          shown \in SUBSET mm.objectURLs :
         mm' = hasAvailableMemory(mm, used, required, shown)
    /\ UNCHANGED <<queueVars, sw, bw, cp, pt, so, sq>>

MemoryNext ==
    \/ GetMemoryManager
    \/ RegisterBlob
    \/ UnregisterBlob
    \/ CreateObjectURL
    \/ RevokeObjectURL
    \/ Cleanup
    \/ TriggerCleanup
    \/ HasAvailableMemory

SpecMemory == Init /\ [][MemoryNext]_vars

\* ---- waiting for memory: queueConversion and processItem
WaitRegisterBlob == RegisterBlobWithin(MaxWaitBlobs, MaxWaitRegisters)

QueueConversion ==
    /\ mm.instance
    /\ mm.nextConversion <= MaxConversions
    /\ \E e \in Estimates, used \in UsedHeapSizes,
          shown \in SUBSET mm.objectURLs :
         mm' = queueConversion(mm, e, used, shown)
    /\ UNCHANGED <<queueVars, sw, bw, cp, pt, so, sq>>

MmPollResume ==
    /\ \E r \in 1..Len(mm.runs) :
         /\ mm.runs[r].pc = "poll"
         /\ \E used \in UsedHeapSizes, shown \in SUBSET mm.objectURLs :
              mm' = mmPollResume(mm, r, used, shown)
    /\ UNCHANGED <<queueVars, sw, bw, cp, pt, so, sq>>

MmTaskSettle ==
    /\ \E r \in 1..Len(mm.runs) :
         /\ mm.runs[r].pc = "task"
         /\ \E outcome \in {"resolved", "rejected"} :
              mm' = mmTaskSettle(mm, r, outcome)
    /\ UNCHANGED <<queueVars, sw, bw, cp, pt, so, sq>>

MmNextResume ==
    /\ \E r \in 1..Len(mm.runs) :
         /\ mm.runs[r].pc = "next"
         /\ \E used \in UsedHeapSizes, shown \in SUBSET mm.objectURLs :
              mm' = mmNextResume(mm, r, used, shown)
    /\ UNCHANGED <<queueVars, sw, bw, cp, pt, so, sq>>

ProcessItem ==
    /\ mm.instance
    /\ Len(cp.items) < MaxItems
    /\ \E size \in FileSizes, used \in UsedHeapSizes,
          shown \in SUBSET mm.objectURLs :
         \E s \in {processItem(mm, cp, size, used, shown)} :
             mm' = s.mm /\ cp' = s.cp
    /\ UNCHANGED <<queueVars, sw, bw, pt, so, sq>>

WaitForMemoryResume ==
    /\ \E i \in 1..Len(cp.items) :
         /\ cp.items[i].pc = "wait"
         /\ \E d \in Delays, used \in UsedHeapSizes,
               shown \in SUBSET mm.objectURLs :
              \E s \in {waitForMemoryLoop(mm, cp, i, cp.items[i].elapsed + d,
                                          used, shown)} :
                  mm' = s.mm /\ cp' = s.cp
    /\ UNCHANGED <<queueVars, sw, bw, pt, so, sq>>

ProcessorSettle ==
    /\ \E i \in 1..Len(cp.items) :
         /\ cp.items[i].pc = "processor"
         /\ \E kind \in {"value", "error", "blob"}, b \in 1..MaxWaitBlobs :
              /\ kind = "blob" => mm.registers < MaxWaitRegisters
              /\ \E s \in {processorSettle(mm, cp, i, kind, b)} :
                    mm' = s.mm /\ cp' = s.cp
    /\ UNCHANGED <<queueVars, sw, bw, pt, so, sq>>

\* queueConversion and dispose() while conversions are queued or running.
Dispose ==
    /\ mm.instance
    /\ mm.disposes < MaxDisposes
    /\ mm' = dispose(mm)
    /\ UNCHANGED <<queueVars, sw, bw, cp, pt, so, sq>>

\* The sizes of the files handed to processInChunks and processFiles.
ChunkFileSizes == {MB \div 2, 20 * MB}

ChunkFiles ==
    UNION {[1..n -> ChunkFileSizes] : n \in 1..MaxChunkFiles}

GetChunkedProcessor ==
    /\ ~cp.instance
    /\ \E options \in ProcessorOptions, env \in Environments :
         /\ cp' = newChunkedProcessor(options)
         /\ mm' = IF mm.instance THEN mm ELSE newMemoryManager(env)
    /\ UNCHANGED <<queueVars, sw, bw, pt, so, sq>>

ProcessInChunks ==
    /\ cp.instance
    /\ Len(cp.calls) < MaxCalls
    /\ \E files \in ChunkFiles :
         \E s \in {processInChunks(mm, cp, files, "chunks", 0, 0, {})} :
             mm' = s.mm /\ cp' = s.cp
    /\ UNCHANGED <<queueVars, sw, bw, pt, so, sq>>

ProcessFiles ==
    /\ cp.instance
    /\ Len(cp.calls) < MaxCalls
    /\ \E files \in ChunkFiles :
         \E s \in {processFiles(mm, cp, files, 0, {})} :
             mm' = s.mm /\ cp' = s.cp
    /\ UNCHANGED <<queueVars, sw, bw, pt, so, sq>>

\* delay(10) of the while loop of processChunk has passed for a call.
ThrottleResume ==
    /\ \E c \in 1..Len(cp.calls) :
         /\ cp.calls[c].pc = "delay"
         /\ \E s \in {processChunkLoop(mm, cp, c, 0, {})} :
               mm' = s.mm /\ cp' = s.cp
    /\ UNCHANGED <<queueVars, sw, bw, pt, so, sq>>

ChunkDelayResume ==
    /\ \E c \in 1..Len(cp.calls) :
         /\ cp.calls[c].pc = "chunkDelay"
         /\ \E s \in {chunkDelayResume(mm, cp, c, 0, {})} :
               mm' = s.mm /\ cp' = s.cp
    /\ UNCHANGED <<queueVars, sw, bw, pt, so, sq>>

ChunkItemSettle ==
    /\ \E i \in 1..Len(cp.items) :
         /\ cp.items[i].pc = "processor"
         /\ \E kind \in {"value", "error"} :
              \E s \in {chunkItemSettle(mm, cp, i, kind)} :
                  mm' = s.mm /\ cp' = s.cp
    /\ UNCHANGED <<queueVars, sw, bw, pt, so, sq>>

DisposeProcessor ==
    /\ cp.instance
    /\ cp.disposes < MaxDisposes
    /\ cp' = disposeProcessor(cp)
    /\ UNCHANGED <<queueVars, sw, bw, mm, pt, so, sq>>

ChunksNext ==
    \/ GetChunkedProcessor
    \/ ProcessInChunks
    \/ ProcessFiles
    \/ ThrottleResume
    \/ ChunkDelayResume
    \/ ChunkItemSettle
    \/ DisposeProcessor

SpecChunks == Init /\ [][ChunksNext]_vars

\* The calls without dispose().
ChunksUndisposedNext ==
    \/ GetChunkedProcessor
    \/ ProcessInChunks
    \/ ProcessFiles
    \/ ThrottleResume
    \/ ChunkDelayResume
    \/ ChunkItemSettle

SpecChunksUndisposed == Init /\ [][ChunksUndisposedNext]_vars

\* The same calls with configure() while they are under way.
Configure ==
    /\ cp.instance
    /\ cp.configures < MaxConfigures
    /\ \E options \in ConfigureOptions : cp' = configure(cp, options)
    /\ UNCHANGED <<queueVars, sw, bw, mm, pt, so, sq>>

ChunksConfiguredNext ==
    \/ ChunksUndisposedNext
    \/ Configure

SpecChunksConfigured == Init /\ [][ChunksConfiguredNext]_vars

MemoryQueueNext ==
    \/ GetMemoryManager
    \/ QueueConversion
    \/ MmPollResume
    \/ MmTaskSettle
    \/ MmNextResume
    \/ Dispose

SpecMemoryQueue == Init /\ [][MemoryQueueNext]_vars

MemoryWaitNext ==
    \/ GetMemoryManager
    \/ WaitRegisterBlob
    \/ QueueConversion
    \/ MmPollResume
    \/ MmTaskSettle
    \/ MmNextResume
    \/ ProcessItem
    \/ WaitForMemoryResume
    \/ ProcessorSettle

\* Every timer fires and every task function and processor settles.
MemoryWaitFairness ==
    /\ WF_vars(MmPollResume)
    /\ WF_vars(MmTaskSettle)
    /\ WF_vars(MmNextResume)
    /\ WF_vars(WaitForMemoryResume)
    /\ WF_vars(ProcessorSettle)

SpecMemoryWait == Init /\ [][MemoryWaitNext]_vars /\ MemoryWaitFairness

\* ---- submissions with options and their dispatch
SubmitWithOptions ==
    /\ Len(so.tasks) < MaxOptionTasks
    /\ \E type \in {"single", "batch"}, o \in SubmittedOptions :
          so' = submitWithOptions(so, type, o)
    /\ UNCHANGED <<queueVars, sw, bw, mm, cp, pt, sq>>

ExecuteTaskCommand ==
    /\ \E i \in 1..Len(so.tasks) :
          /\ ~so.tasks[i].sent
          /\ so' = executeTaskCommand(so, i)
    /\ UNCHANGED <<queueVars, sw, bw, mm, cp, pt, sq>>

OptionsNext ==
    \/ SubmitWithOptions
    \/ ExecuteTaskCommand

SpecOptions == Init /\ [][OptionsNext]_vars

\* ---- the simple priority ConversionQueue
NewSimpleQueue ==
    /\ ~sq.constructed
    /\ \E mc \in 1..MaxConcurrentOpt : sq' = newSimpleQueue(mc)
    /\ UNCHANGED <<queueVars, sw, bw, mm, cp, pt, so>>

SimpleAdd ==
    /\ sq.constructed
    /\ sq.adds < MaxSimpleItems
    /\ \E priority \in SimplePriorities, hasFile \in BOOLEAN :
          sq' = simpleAdd(sq, sq.adds + 1, priority, hasFile)
    /\ UNCHANGED <<queueVars, sw, bw, mm, cp, pt, so>>

SimpleConvert ==
    /\ \E id \in sq.inFlight : sq' = simpleConvert(sq, id)
    /\ UNCHANGED <<queueVars, sw, bw, mm, cp, pt, so>>

SimpleCancel ==
    /\ sq.constructed
    /\ \E id \in 1..MaxSimpleItems : sq' = simpleCancel(sq, id)
    /\ UNCHANGED <<queueVars, sw, bw, mm, cp, pt, so>>

SimpleNext ==
    \/ NewSimpleQueue
    \/ SimpleAdd
    \/ SimpleConvert
    \/ SimpleCancel

SpecSimple == Init /\ [][SimpleNext]_vars

\* The same calls with clearCompleted() and clearAll().
SimpleClearCompleted ==
    /\ sq.constructed
    /\ sq' = clearCompleted(sq)
    /\ UNCHANGED <<queueVars, sw, bw, mm, cp, pt, so>>

SimpleClearAll ==
    /\ sq.constructed
    /\ sq' = clearAll(sq)
    /\ UNCHANGED <<queueVars, sw, bw, mm, cp, pt, so>>

SimpleClearNext ==
    \/ SimpleNext
    \/ SimpleClearCompleted
    \/ SimpleClearAll

SpecSimpleClear == Init /\ [][SimpleClearNext]_vars

\* ---- the ProgressTracker's calls
TrackerCall(p) ==
    /\ pt.calls < MaxTrackerCalls
    /\ pt' = [p EXCEPT !.calls = @ + 1]
    /\ UNCHANGED <<queueVars, sw, bw, mm, cp, so, sq>>

TrackerReset == TrackerCall(trackerReset(pt))

StartTracking ==
    \E n \in 0..MaxTrackedFiles, size \in TrackedSizes :
        TrackerCall(startTracking(pt, n, n * size))

UpdateFileProgress ==
    \E size \in TrackedSizes, progress \in Percentages :
        TrackerCall(updateFileProgress(pt, size, progress))

CompleteFile == TrackerCall(completeFile(pt))

FailFile == TrackerCall(failFile(pt))

CancelFile == TrackerCall(cancelFile(pt))

Finish == TrackerCall(finish(pt))

TrackerNext ==
    \/ TrackerReset
    \/ StartTracking
    \/ UpdateFileProgress
    \/ CompleteFile
    \/ FailFile
    \/ CancelFile
    \/ Finish

SpecTracker == Init /\ [][TrackerNext]_vars

\* ---- submissions with their validation
Thrown(e) == IF e = "" THEN "" ELSE "throws"

SubmitFile ==
    /\ Delivered
    /\ \E file \in SubmittedFiles, raw \in RawTargetTypes, p \in Priorities :
          /\ addFileError(Cur, file, raw) = "" => nextId <= MaxTasks
          /\ addFileError(Cur, file, raw) # "" => p = 0
          /\ Commit(submitFile(Cur, file, raw, p),
                    Op("addFile", nextId, NoWorker,
                       addFileError(Cur, file, raw),
                       Thrown(addFileError(Cur, file, raw))))

SubmitBatch ==
    /\ Delivered
    /\ \E files \in SubmittedBatches, raw \in RawTargetTypes, p \in Priorities :
          /\ addBatchError(Cur, files, raw) = "" => nextId <= MaxTasks
          /\ addBatchError(Cur, files, raw) # "" => p = 0
          /\ Commit(submitBatch(Cur, files, raw, p),
                    Op("addBatch", nextId, NoWorker,
                       addBatchError(Cur, files, raw),
                       Thrown(addBatchError(Cur, files, raw))))

SubmitNext ==
    \/ SubmitFile
    \/ SubmitBatch
    \/ ProcessQueueResume
    \/ HandleWorkerMessage
    \/ WorkerOnMessage
    \/ WorkerTimeout
    \/ WorkerDecoded

SpecSubmit == Init /\ [][SubmitNext]_vars

\* The browser starts to refuse new Worker(...), e.g. at a resource limit.
WorkersStartFailing ==
    /\ ~workersFail
    /\ Commit([Cur EXCEPT !.workersFail = TRUE], Op("workersStartFailing", NoTask, NoWorker, "", ""))

\* Tasks of both kinds with an uncaught error inside a worker.  The decoder
\* does not settle within these runs.
WorkerFailureNext ==
    \/ AddFile
    \/ AddBatch
    \/ WorkersStartFailing
    \/ ProcessQueueResume
    \/ HandleWorkerMessage
    \/ RetryTimer
    \/ WorkerOnMessage
    \/ WorkerTimeout
    \/ UncaughtError

SpecWorkerFailure == InitFailing /\ [][WorkerFailureNext]_vars

\* Batch tasks on a queue with maxConcurrent = 1 and workers in which
\* uncaught errors recur, up to MaxMetricsUncaught times.  The decoder does not settle within these runs:
\* a batch completes with the failures of its files ('jpg' and 'webp' pass
\* addBatch and no worker converts to them).
MetricsWorkerOnError == WorkerOnErrorWithin(MaxMetricsUncaught, MaxMetricsUncaught)

MetricsNext ==
    \/ AddBatch
    \/ ProcessQueueResume
    \/ HandleWorkerMessage
    \/ RetryTimer
    \/ WorkerOnMessage
    \/ WorkerTimeout
    \/ MetricsWorkerOnError

InitSerial == InitWith(InitState(1))

SpecMetrics == InitSerial /\ [][MetricsNext]_vars

Next ==
    \/ AddFile
    \/ AddBatch
    \/ CancelTask
    \/ CancelAll
    \/ ProcessQueueResume
    \/ HandleWorkerMessage
    \/ HandleWorkerError
    \/ RetryTimer
    \/ WorkerOnMessage
    \/ WorkerTimeout
    \/ WorkerDecoded
    \/ WorkerOnError

Spec == Init /\ [][Next]_vars

\* Submissions on a queue that is neither paused nor destroyed, with workers
\* that answer every command and timers that fire: no cancel call and no
\* worker crash.
LiveNext ==
    \/ AddFile
    \/ AddBatch
    \/ ProcessQueueResume
    \/ HandleWorkerMessage
    \/ RetryTimer
    \/ WorkerOnMessage
    \/ WorkerTimeout
    \/ WorkerDecoded
    \/ UncaughtError

LiveFairness ==
    /\ WF_vars(ProcessQueueResume)
    /\ WF_vars(HandleWorkerMessage)
    /\ WF_vars(RetryTimer)
    /\ WF_vars(WorkerOnMessage)
    /\ WF_vars(WorkerTimeout)
    /\ WF_vars(WorkerDecoded)

SpecLive == Init /\ [][LiveNext]_vars /\ LiveFairness

\* The same operations on a queue with small worker pools, in a browser that
\* may refuse to create workers.
SmallPoolNext == Next \/ WorkersStartFailing

SpecSmallPool == InitSmallPool /\ [][SmallPoolNext]_vars

\* MaxBatchTasks batch tasks, with a cancelTask call and up to
\* MaxRepeatedUncaught uncaught errors inside a worker in the same run.
BatchAddBatch == AddBatchUpTo(MaxBatchTasks)

BatchCancelTask == CancelTaskWithin(MaxCancels + MaxRepeatedUncaught)

BatchWorkerOnError ==
    WorkerOnErrorWithin(MaxRepeatedUncaught, MaxCancels + MaxRepeatedUncaught)

BatchNext ==
    \/ BatchAddBatch
    \/ BatchCancelTask
    \/ ProcessQueueResume
    \/ HandleWorkerMessage
    \/ RetryTimer
    \/ WorkerOnMessage
    \/ WorkerTimeout
    \/ WorkerDecoded
    \/ BatchWorkerOnError

SpecBatch == Init /\ [][BatchNext]_vars

\* Two tasks on a queue that is paused and resumed, without cancel calls and
\* worker crashes.
PauseNext ==
    \/ AddFile
    \/ AddBatch
    \/ Pause
    \/ Resume
    \/ ProcessQueueResume
    \/ HandleWorkerMessage
    \/ WorkerOnMessage
    \/ WorkerTimeout
    \/ WorkerDecoded

SpecPause == Init /\ [][PauseNext]_vars

\* One task whose progress messages are relayed, with an uncaught error
\* inside a worker.
ProgressAddFile ==
    /\ nextId <= MaxProgressTasks
    /\ AddFile

ProgressAddBatch == AddBatchUpTo(MaxProgressTasks)

ProgressNext ==
    \/ ProgressAddFile
    \/ ProgressAddBatch
    \/ ProcessQueueResume
    \/ HandleWorkerMessage
    \/ RetryTimer
    \/ WorkerOnMessage
    \/ WorkerTimeout
    \/ WorkerDecoded
    \/ WorkerInterval
    \/ UncaughtError

SpecProgress == Init /\ [][ProgressNext]_vars

\* One task on a queue that is destroyed, with listeners coming and going
\* and up to MaxRepeatedUncaught uncaught errors inside a worker.  The decoder
\* does not settle within these runs.
DestroyWorkerOnError == WorkerOnErrorWithin(MaxRepeatedUncaught, MaxRepeatedUncaught)

DestroyNext ==
    \/ ProgressAddFile
    \/ ProgressAddBatch
    \/ On
    \/ Off
    \/ Destroy
    \/ Teardown
    \/ ProcessQueueResume
    \/ HandleWorkerMessage
    \/ RetryTimer
    \/ WorkerOnMessage
    \/ WorkerTimeout
    \/ DestroyWorkerOnError

SpecDestroy == Init /\ [][DestroyNext]_vars

\* One task on a queue that is destroyed, and the mutating methods called
\* afterwards.
DestroyedNext ==
    \/ ProgressAddFile
    \/ ProgressAddBatch
    \/ Pause
    \/ Destroy
    \/ Teardown
    \/ DestroyedAddFile
    \/ DestroyedAddBatch
    \/ DestroyedPause
    \/ DestroyedResume
    \/ DestroyedCancelTask
    \/ DestroyedCancelAll
    \/ ProcessQueueResume
    \/ HandleWorkerMessage
    \/ RetryTimer
    \/ WorkerOnMessage
    \/ WorkerTimeout
    \/ WorkerDecoded
    \/ UncaughtError

SpecDestroyed == Init /\ [][DestroyedNext]_vars

TypeOK ==
    /\ maxConcurrent \in 1..MaxConcurrentOpt
    /\ queue \in Seq(Tasks)
    /\ active \in [Tasks -> 0..MaxWorkerIds]

\* ------------------------------------------------------------ properties
terminalEvents(t) == evComplete[t] + evError[t] + evCancelled[t]

\* Tasks that were dispatched to a worker and have had no terminal event.
InFlight == {t \in Tasks : status[t] = "processing" /\ terminalEvents(t) = 0}

TerminalTypes ==
    {"success", "batch-complete", "cancelled", "batch-cancelled", "error", "batch-error"}

\* C1: a task all of whose dispatches ended in a worker-reported error, and
\* that no cancel call or worker crash touched, is Failed after exactly
\* maxRetries + 1 dispatches, with one 'error' event.
C1_RetryBound ==
    \A t \in Tasks :
        (evError[t] > 0 /\ cancels = 0 /\ crashes = 0 /\ retries[t] = dispatched[t])
            => (dispatched[t] = maxRetries + 1 /\ evError[t] = 1)

\* C2: the queue emits at most one terminal event (complete, error or
\* cancelled) per task id.
C2_OneTerminalEvent == \A t \in Tasks : terminalEvents(t) <= 1

\* C3: the number of tasks dispatched to a worker that have not reached a
\* terminal state never exceeds maxConcurrent.
C3_ConcurrencyBound == Cardinality(InFlight) <= maxConcurrent

\* With maxConcurrent = 1: one task is in flight, a second one waits in the
\* queue, and a suspended processQueue is about to evaluate its loop condition.
C3_Witness ==
    /\ maxConcurrent = 1
    /\ Cardinality(InFlight) = 1
    /\ Len(queue) > 0
    /\ pqPending > 0

\* C4: when a task is dispatched, no task left pending in the queue has a
\* strictly higher priority.
C4_PriorityOrder ==
    [][\A t \in Tasks :
          dispatched'[t] > dispatched[t]
              => \A u \in Tasks : InSeq(queue', u) => prio[u] <= prio[t]]_vars

\* C5: cancelTask on a pending task returns true, removes the task from the
\* queue and emits exactly one 'cancelled' event for it, and the task is never
\* dispatched afterwards.
C5_CancelPending ==
    [][/\ (last'.op = "cancelTask" /\ last'.arg = "queued")
            => /\ last'.ret = "true"
               /\ ~InSeq(queue', last'.task)
               /\ evCancelled'[last'.task] = evCancelled[last'.task] + 1
       /\ \A t \in cancelledPending : dispatched'[t] = dispatched[t]]_vars

\* C6: once 'complete' or 'cancelled' has been emitted for a task, the task
\* is never put into the queue or dispatched again.
C6_NoReturnAfterTerminal ==
    [][\A t \in Tasks :
          evComplete[t] + evCancelled[t] > 0
              => /\ dispatched'[t] = dispatched[t]
                 /\ InSeq(queue', t) => InSeq(queue, t)]_vars

\* C7: cancelTask on a running task only posts the cancel command and returns
\* true.  From then on the worker stays busy with the task until the queue
\* handles a message or an error of that worker, and the task stays in the
\* active set until the queue handles a message or an error of that worker
\* or of the worker the task is active on.
C7_CancelRunning ==
    [][/\ (last'.op = "cancelTask" /\ last'.arg = "active")
            => /\ last'.ret = "true"
               /\ active' = active /\ busy' = busy /\ taskId' = taskId
               /\ queue' = queue /\ status' = status
               /\ evComplete' = evComplete /\ evError' = evError
               /\ evCancelled' = evCancelled /\ dispatched' = dispatched
               /\ \/ terminated[last'.worker]
                  \/ inbox'[last'.worker] # inbox[last'.worker]
       /\ \A t \in Tasks :
             cancelSent[t] # NoWorker
                 => /\ (~busy'[cancelSent[t]] \/ taskId'[cancelSent[t]] # t)
                        => /\ last'.worker = cancelSent[t]
                           /\ last'.op \in {"handleWorkerMessage", "handleWorkerError"}
                    /\ active'[t] = NoWorker
                        => /\ last'.worker \in {cancelSent[t], active[t]}
                           /\ last'.op \in {"handleWorkerMessage", "handleWorkerError"}]_vars

\* C8: executeTask is never handed a busy worker, no worker is released while
\* its busy flag is clear, and no two active tasks hold the same worker.
C8_WorkerAssignment ==
    /\ ~assignedBusy
    /\ ~releasedIdle
    /\ \A t, u \in Tasks : (t # u /\ active[t] # NoWorker) => active[t] # active[u]
    /\ \A t \in Tasks : active[t] # NoWorker => busy[active[t]]

\* With maxConcurrent = 1 the first batch worker has completed one task, was
\* released, and now holds the other task.
C8_Witness ==
    /\ maxConcurrent = 1
    /\ crashes = 0
    /\ \E t, u \in Tasks :
          /\ t # u
          /\ ttype[t] = "batch" /\ ttype[u] = "batch"
          /\ retries[t] = 0 /\ retries[u] = 0
          /\ evComplete[u] = 1 /\ dispatched[u] = 1
          /\ dispatched[t] = 1
          /\ active[t] = batchWorkerPool[1]

\* C9: when the queue handles the result the single-file worker posted for
\* the task it holds (a task not waiting in the queue): a success emits one
\* 'complete' event for the task and releases the worker from the task, an
\* error is counted by the retry policy.
C9_SingleResultActedOn ==
    [][(/\ last'.op = "handleWorkerMessage"
        /\ wtype[last'.worker] = "single"
        /\ last'.task # NoTask
        /\ active[last'.task] = last'.worker
        /\ ~InSeq(queue, last'.task))
          => /\ last'.ret = "success"
                 => /\ evComplete'[last'.task] = evComplete[last'.task] + 1
                    /\ active'[last'.task] = NoWorker
                    /\ taskId'[last'.worker] # last'.task
             /\ last'.ret = "error"
                 => retries'[last'.task] = retries[last'.task] + 1]_vars

\* C10: worker.onerror on a worker that holds an active task sends the task
\* through the retry path (a retry timer while retries remain, else one
\* 'error' event) and replaces the worker: it leaves its pool and a fresh idle
\* worker of the same kind is appended.
C10_WorkerErrorRetriesAndReplaces ==
    [][(/\ last'.op = "handleWorkerError"
        /\ last'.task # NoTask
        /\ active[last'.task] # NoWorker)
          => /\ retries'[last'.task] = retries[last'.task] + 1
             /\ \/ timers'[last'.task] = timers[last'.task] + 1
                \/ evError'[last'.task] = evError[last'.task] + 1
             /\ LET w == last'.worker
                    old == IF wtype[w] = "batch" THEN batchWorkerPool ELSE workerPool
                    new == IF wtype[w] = "batch" THEN batchWorkerPool' ELSE workerPool'
                IN /\ Len(new) = Len(old)
                   /\ SubSeq(new, 1, Len(new) - 1) = RemoveAt(old, IndexOf(old, w, 1))
                   /\ ~busy'[new[Len(new)]]
                   /\ ~terminated'[new[Len(new)]]
                   /\ taskId'[new[Len(new)]] = NoTask]_vars

\* No task is dispatched by a step that starts and ends with the queue paused.
PausedNoDispatch ==
    (isPaused /\ isPaused')
        => /\ dispatched' = dispatched
           /\ \A t \in Tasks : status[t] = "queued" => status'[t] = "queued"

\* While the queue is paused, the result a worker posted for the task it holds
\* is acted on: a success emits 'complete', an error is counted.
PausedResultRelayed ==
    (/\ isPaused
     /\ last'.op = "handleWorkerMessage"
     /\ last'.task # NoTask
     /\ active[last'.task] = last'.worker)
        => /\ last'.ret = "success"
               => evComplete'[last'.task] = evComplete[last'.task] + 1
           /\ last'.ret = "error"
               => retries'[last'.task] = retries[last'.task] + 1
           /\ last'.ret = "progress"
               => evProgress'[last'.task] = Head(outbox[last'.worker]).percent

\* A task waits although the queue is not paused, the active set is below
\* maxConcurrent, a worker is available and no processQueue is suspended.
Stalled ==
    /\ ~isPaused
    /\ pqPending = 0
    /\ Len(queue) > 0
    /\ activeSize(Cur) < maxConcurrent
    /\ getAvailableWorker(Cur, ttype[Head(queue)]).w # NoWorker

\* resume() clears the flag and dispatches the head of the queue when the
\* active set is below maxConcurrent and a worker is available; the suspended
\* processQueue goes on from there, so that no task is left stalled.
ResumeDispatches ==
    /\ last'.op = "resume"
           => /\ ~isPaused'
              /\ (/\ Len(queue) > 0
                  /\ activeSize(Cur) < maxConcurrent
                  /\ getAvailableWorker(Cur, ttype[Head(queue)]).w # NoWorker)
                     => /\ dispatched'[Head(queue)] = dispatched[Head(queue)] + 1
                        /\ pqPending' = pqPending + 1
    /\ ~Stalled'

\* C11: while the queue is paused no task is dispatched, the results of the
\* running tasks are still acted on, and resume() dispatches pending tasks up
\* to the free capacity.
C11_PausedQueue ==
    [][PausedNoDispatch /\ PausedResultRelayed /\ ResumeDispatches]_vars

\* The fields of the queue and the commands sent to its workers.
queueState ==
    <<maxConcurrent, isPaused, isDestroyed, nextId, ttype, prio, retries,
      status, queue, active, workerPool, batchWorkerPool, busy, taskId,
      terminated, timers, pqPending, inbox, evComplete, evError, evCancelled,
      evProgress, dispatched, teardownTimer, eventHandlers>>

MutatingCalls == {"addFile", "addBatch", "cancelTask", "cancelAll", "pause", "resume"}

\* C12: on a destroyed queue every call of addFile, addBatch, cancelTask,
\* cancelAll, pause and resume fails with an error and changes nothing.
C12_DestroyedCallsFail ==
    [][(isDestroyed /\ last'.op \in MutatingCalls)
          => (last'.ret = "throws" /\ queueState' = queueState)]_vars

\* No step of a destroyed queue, nor destroy() itself, dispatches a task.
DestroyedNoDispatch == isDestroyed' => dispatched' = dispatched

\* destroy() emits one 'cancelled' event for every task in the queue.
DestroyCancelsQueued ==
    last'.op = "destroy"
        => \A t \in Tasks :
              InSeq(queue, t) => evCancelled'[t] = evCancelled[t] + 1

\* destroy() posts a cancel command to the worker of every active task.
DestroyCancelsRunning ==
    last'.op = "destroy"
        => \A t \in Tasks :
              (active[t] # NoWorker /\ ~terminated[active[t]])
                  => /\ Len(inbox'[active[t]]) = Len(inbox[active[t]]) + 1
                     /\ inbox'[active[t]][Len(inbox'[active[t]])].type
                            = IF ttype[t] = "batch" THEN "cancel-batch" ELSE "cancel"

\* From the teardown on, the pools, the queue and the active set are empty;
\* the teardown leaves no event handler.
TornDownEmpty ==
    /\ teardownTimer' = "fired"
           => /\ workerPool' = <<>> /\ batchWorkerPool' = <<>>
              /\ queue' = <<>>
              /\ \A t \in Tasks : active'[t] = NoWorker
    /\ last'.op = "teardown" => eventHandlers' = {}

\* C13: after destroy() no task is dispatched again; destroy() emits one
\* 'cancelled' event for every queued task and sends a cancel command to the
\* worker of every running task; once the teardown has run, both pools, the
\* queue, the active set and the event handlers are empty.
C13_DestroyTearsDown ==
    [][/\ DestroyedNoDispatch
       /\ DestroyCancelsQueued
       /\ DestroyCancelsRunning
       /\ TornDownEmpty]_vars

PoolTypes == {"single", "batch"}

idleWorkers(type) ==
    {i \in 1..Len(poolOf(Cur, type)) : ~busy[poolOf(Cur, type)[i]]}

\* C14: neither pool holds more than maxWorkers workers, and
\* getAvailableWorker(kind) answers the first idle worker of that kind's pool
\* if there is one, else a new idle worker of that kind appended to the pool
\* if the pool is below maxWorkers, else nothing.
C14_PoolCap ==
    /\ Len(workerPool) <= maxWorkers
    /\ Len(batchWorkerPool) <= maxWorkers
    /\ \A type \in PoolTypes :
          LET pool == poolOf(Cur, type)
              g == getAvailableWorker(Cur, type)
          IN IF idleWorkers(type) # {}
             THEN /\ \E i \in idleWorkers(type) :
                        /\ g.w = pool[i]
                        /\ \A j \in idleWorkers(type) : i <= j
                  /\ wtype[g.w] = type
                  /\ g.s = Cur
             ELSE IF Len(pool) < maxWorkers
                  THEN /\ ~InUse(Cur, g.w)
                       /\ poolOf(g.s, type) = Append(pool, g.w)
                       /\ g.s.wtype[g.w] = type
                       /\ ~g.s.busy[g.w]
                       /\ \A other \in PoolTypes \ {type} :
                             poolOf(g.s, other) = poolOf(Cur, other)
                  ELSE g.w = NoWorker /\ g.s = Cur

swTerminal == {"success", "error", "cancelled"}

\* The terminal messages among the messages of conversion c.
terminalsOf(c) ==
    {i \in 1..Len(sw.convs[c].posted) : sw.convs[c].posted[i].outcome \in swTerminal}

\* C15: for every 'convert' command the single-file worker posts progress
\* messages followed by exactly one terminal message (success, error or
\* cancelled), and nothing after it.
C15_OneTerminalMessage ==
    \A c \in 1..Len(sw.convs) :
        /\ Cardinality(terminalsOf(c)) <= 1
        /\ sw.convs[c].pc = "done" => Cardinality(terminalsOf(c)) = 1
        /\ \A i \in terminalsOf(c) : i = Len(sw.convs[c].posted)

\* C16: once the single-file worker has handled a 'cancel' command during a
\* conversion, it posts no progress message and no success message for that
\* conversion.
C16_SilentAfterCancel ==
    [][\A c \in 1..Len(sw.convs) :
          sw.convs[c].cancelSeen
              => \A i \in (Len(sw.convs[c].posted) + 1)..Len(sw'.convs[c].posted) :
                    sw'.convs[c].posted[i].outcome \notin {"progress", "success"}]_vars

\* C17: until the terminal event of a task, the percents of the 'progress'
\* events the queue emits for it never decrease.
C17_ProgressMonotone ==
    [][\A t \in Tasks :
          (terminalEvents(t) = 0 /\ evProgress[t] # NoProgress)
              => evProgress'[t] >= evProgress[t]]_vars

\* The positions of the messages of a type in the log of run r.
bwPostedOf(w, r, type) ==
    {k \in 1..Len(w.runs[r].posted) : w.runs[r].posted[k].type = type}

\* C18: when 'cancel-batch' arrives during a run, the worker posts one
\* 'batch-cancelled' message with the results and errors gathered so far;
\* from then on the run starts no later file, posts no second
\* 'batch-cancelled' and never posts 'batch-complete'.
C18_BatchCancelStops ==
    [][\A r \in 1..Len(bw.runs) :
          /\ (~bw.runs[r].cancelSeen /\ bw'.runs[r].cancelSeen /\ r = Len(bw.runs))
                 => /\ Len(bw'.runs[r].posted) = Len(bw.runs[r].posted) + 1
                    /\ LET m == bw'.runs[r].posted[Len(bw'.runs[r].posted)]
                       IN /\ m.type = "batch-cancelled"
                          /\ m.results = bw.batchState.results
                          /\ m.errors = bw.batchState.errors
          /\ bw.runs[r].cancelSeen
                 => /\ bw'.runs[r].started = bw.runs[r].started
                    /\ bwPostedOf(bw', r, "batch-cancelled") = bwPostedOf(bw, r, "batch-cancelled")
                    /\ bwPostedOf(bw', r, "batch-complete") = {}]_vars

\* The files of run r, in list order.
filesOf(r) == [k \in 1..bw.runs[r].files |-> <<r, k - 1>>]

\* s is a subsequence of the files of run r (list order, no file twice).
InListOrder(s) ==
    \A k \in 1..(Len(s) - 1) : s[k][1] = s[k + 1][1] /\ s[k][2] < s[k + 1][2]

\* C19: a run that was not cancelled and has ended has started every file of
\* its list and has posted exactly one 'batch-complete', whose results and
\* errors hold one entry per file of the list, in list order, each error
\* naming its file, with the summary counts equal to the two lengths.
C19_BatchCompleteCounts ==
    \A r \in 1..Len(bw.runs) :
        (bw.runs[r].pc = "done" /\ ~bw.runs[r].cancelSeen)
            => /\ bw.runs[r].started = bw.runs[r].files
               /\ Cardinality(bwPostedOf(bw, r, "batch-complete")) = 1
               /\ \A k \in bwPostedOf(bw, r, "batch-complete") :
                     LET m == bw.runs[r].posted[k]
                         failed == [j \in 1..Len(m.errors) |-> m.errors[j].fileName]
                     IN /\ Len(m.results) + Len(m.errors) = bw.runs[r].files
                        /\ m.summary.totalFiles = bw.runs[r].files
                        /\ m.summary.successCount = Len(m.results)
                        /\ m.summary.errorCount = Len(m.errors)
                        /\ InListOrder(m.results) /\ InListOrder(failed)
                        /\ \A j \in 1..bw.runs[r].files :
                              InSeq(m.results, filesOf(r)[j]) # InSeq(failed, filesOf(r)[j])

\* C20: MemoryManager.hasAvailableMemory(required) answers true only when the
\* current usage plus required is at most maxMemoryUsage * gcThreshold (0.8);
\* when the sum is above that threshold the call triggers cleanup and answers
\* false.
C20_AdmitUnderThreshold ==
    mm.call.op = "hasAvailableMemory" =>
        LET projected == mm.call.usage + mm.call.required
            over == projected > floorTenths(mm.maxMemoryUsage, 8)
        IN /\ mm.call.ret => ~over
           /\ over => mm.call.cleaned /\ ~mm.call.ret

\* C21: a conversion whose memory estimate can never be satisfied (it is at
\* least maxMemoryUsage, so no reclamation makes room for it) does not wait
\* forever: a conversion queued with MemoryManager.queueConversion is
\* eventually rejected, and an item of ChunkedProcessor.processItem waiting
\* in waitForMemory eventually fails with the timeout error.
QueuedUnsatisfiable(c) ==
    mm.settled[c] = "pending" /\ mm.est[c] >= mm.maxMemoryUsage

ItemUnsatisfiable(i) ==
    /\ Len(cp.items) >= i
    /\ cp.items[i].pc = "wait"
    /\ cp.items[i].required >= mm.maxMemoryUsage

ItemTimedOut(i) == Len(cp.items) >= i /\ cp.items[i].outcome = "timeout"

C21_BoundedWait ==
    /\ \A c \in Conversions :
          QueuedUnsatisfiable(c) ~> (mm.settled[c] = "rejected")
    /\ \A i \in 1..MaxItems : ItemUnsatisfiable(i) ~> ItemTimedOut(i)

\* C22: triggerCleanup() on n tracked blobs keeps the floor(0.3 n) most
\* recently registered blobs, unregisters all older ones, and lowers
\* currentMemoryEstimate by exactly the total size of the blobs it removed.
RECURSIVE sizeOf(_)
sizeOf(bs) == IF bs = <<>> THEN 0 ELSE BlobSize(Head(bs)) + sizeOf(Tail(bs))

C22_CleanupKeepsNewest ==
    [][mm'.call.op = "triggerCleanup" =>
         LET n == Len(mm.activeBlobs)
             keep == floorTenths(n, 3)
         IN /\ mm'.activeBlobs = SubSeq(mm.activeBlobs, n - keep + 1, n)
            /\ mm'.currentMemoryEstimate =
                  mm.currentMemoryEstimate
                    - sizeOf(SubSeq(mm.activeBlobs, 1, n - keep))]_vars

\* C23: after any sequence of ProgressTracker operations (startTracking,
\* updateFileProgress, completeFile, failFile, cancelFile, finish, reset),
\* processedBytes <= totalBytes and processedFiles <= totalFiles.
C23_TrackerAggregate ==
    /\ pt.processedBytes <= pt.totalBytes
    /\ pt.processedFiles <= pt.totalFiles

\* C24: a submission that fails validation (a file without a name or with a
\* negative size, an unsupported target format, an empty batch, a batch of
\* more than 100 files) raises an error to the caller and leaves the queue
\* untouched: no task is created (the task is registered with the progress
\* tracker when it is created), queued or dispatched, and no event is emitted.
ValidationErrors == {"name", "size", "targetType", "empty", "tooMany"}

C24_InvalidSubmissionNoEffect ==
    [][(last'.op \in {"addFile", "addBatch"}
          /\ last'.arg \in ValidationErrors)
         => (last'.ret = "throws" /\ queueState' = queueState
               /\ outbox' = outbox)]_vars

C24_Witness ==
    /\ last.op = "addBatch"
    /\ last.arg = "tooMany"
    /\ last.ret = "throws"
    /\ queue # <<>>
    /\ \E t \in Tasks : active[t] # NoWorker

\* C25: once new Worker(...) has failed maxWorkerFailures times, during
\* construction or during later acquisitions, a 'workerError' event has been
\* emitted and getHealthStatus().healthy is false.
C25_DegradedSignalled ==
    creationFailures >= maxWorkerFailures =>
        evWorkerError >= 1 /\ ~healthy(Cur)

\* The tasks that finished with a 'complete' event, and with an 'error' event.
CompletedTasks == {t \in Tasks : evComplete[t] > 0}
FailedTasks == {t \in Tasks : evError[t] > 0}

\* C26: the success rate of getMetrics() and getHealthStatus() lies between 0
\* and 100 and is the percentage of the finished tasks (completed or failed)
\* that completed.
C26_SuccessRate ==
    LET r == successRate(Cur)
        completed == Cardinality(CompletedTasks)
        finished == Cardinality(CompletedTasks \cup FailedTasks)
    IN /\ 0 <= r.num
       /\ r.num <= 100 * r.den
       /\ finished > 0 => r.num * finished = 100 * completed * r.den

\* processQueue would take the head task and get no worker for it.
headBlocked(s) ==
    /\ Len(s.queue) > 0
    /\ activeSize(s) < s.maxConcurrent
    /\ ~s.isPaused
    /\ ~s.isDestroyed
    /\ LET g == getAvailableWorker([s EXCEPT !.queue = Tail(@)],
                                   s.ttype[Head(s.queue)])
       IN g.w = NoWorker /\ ~g.thrown

\* A step in which releaseWorker releases a pooled worker of the kind of the
\* head task.
ReleasedOfHeadKind ==
    \E w \in WorkerIds :
        /\ InSeq(poolOf(Cur, ttype[Head(queue)]), w)
        /\ busy[w]
        /\ \E u \in Tasks : active[u] = w /\ active'[u] = NoWorker

\* A step that submits a new task.
Arrived == nextId' > nextId

\* A step that sends the head task to a worker.
HeadDispatched == dispatched'[Head(queue)] > dispatched[Head(queue)]

\* A scheduling cycle has run on the state: it is suspended at its await, or
\* another pass would change nothing.
CycleRan(s) == s.pqPending > 0 \/ processQueue(s) = s

\* C27: when processQueue takes the head task and gets no worker of its kind,
\* the task is put back at the front, nothing changes and the cycle stops; the
\* release of a worker of its kind dispatches the task in the cycle that
\* follows, and the arrival of a new task starts a new cycle.
C27_NoWorkerPutBack ==
    [][headBlocked(Cur) =>
          /\ processQueue(Cur) = Cur
          /\ ReleasedOfHeadKind => HeadDispatched
          /\ Arrived => CycleRan(Cur)']_vars

\* A task arrived while the head task could get no worker of a pool of real
\* workers: the cycle of the arrival took the head task and put it back in
\* front of another task.
C27_Witness ==
    /\ last.op \in {"addFile", "addBatch"}
    /\ headBlocked(Cur)
    /\ Len(queue) >= 2
    /\ \A w \in Pooled : ~isMock[w]

\* C28: on a queue that is neither paused nor destroyed and whose workers
\* answer every convert command with a terminal message, every submitted task
\* eventually has a terminal event (complete, error or cancelled).
C28_EveryTaskTerminates ==
    \A t \in Tasks :
        (t < nextId) ~> (evComplete[t] > 0 \/ evError[t] > 0 \/ evCancelled[t] > 0)

\* The workers the entries of the active set refer to.
ReferencedWorkers == {active[t] : t \in {u \in Tasks : active[u] # NoWorker}}

\* C29: the busy workers are exactly the workers the entries of the active
\* set refer to, one entry per busy worker; with an empty active set every
\* pooled worker is idle.
C29_BusyIffActive ==
    /\ \A w \in Pooled \cup ReferencedWorkers : busy[w] <=> w \in ReferencedWorkers
    /\ \A t, u \in Tasks :
          (active[t] # NoWorker /\ active[t] = active[u]) => t = u
    /\ ReferencedWorkers = {} => \A w \in Pooled : ~busy[w]

\* The step changes what the queue has reported about task t: an event, the
\* relayed progress, or the count of its failed attempts.
Attributed(t) ==
    \/ evComplete'[t] # evComplete[t]
    \/ evError'[t] # evError[t]
    \/ evCancelled'[t] # evCancelled[t]
    \/ evProgress'[t] # evProgress[t]
    \/ retries'[t] # retries[t]

\* C30: a progress or terminal message that the queue attributes to a task
\* was posted by the conversion that the task's own convert command started
\* (the answers to a cancel command, which belong to no conversion, aside).
C30_OwnMessages ==
    [][\A w \in Pooled :
          (/\ last'.op = "handleWorkerMessage"
           /\ last'.worker = w
           /\ outbox[w] # <<>>
           /\ Head(outbox[w]).file # NoTask
           /\ taskId[w] # NoTask
           /\ Attributed(taskId[w]))
              => Head(outbox[w]).file = taskId[w]]_vars

\* C31: every entry of the active set refers to a worker that is in the pool
\* of the task's kind and has not been terminated.
C31_ActiveWorkerLive ==
    \A t \in Tasks :
        active[t] # NoWorker =>
            /\ InSeq(poolOf(Cur, ttype[t]), active[t])
            /\ ~terminated[active[t]]

\* worker.onerror has fired for a worker that holds an active task while
\* another task waits in the queue.
C31_Witness ==
    /\ last.op = "handleWorkerError"
    /\ last.worker # NoWorker
    /\ taskId[last.worker] # NoTask
    /\ active[taskId[last.worker]] = last.worker
    /\ Len(queue) > 0

\* C32: a submitted task is in the queue or in the active set until it has a
\* terminal event, also when createWorker throws in processQueue.
C32_NoTaskLost ==
    \A t \in Tasks :
        t < nextId =>
            \/ InSeq(queue, t)
            \/ active[t] # NoWorker
            \/ evComplete[t] > 0
            \/ evError[t] > 0
            \/ evCancelled[t] > 0

\* C33: no task is in the pending queue and in the active set at once.
C33_QueuedXorActive ==
    \A t \in Tasks : ~(InSeq(queue, t) /\ active[t] # NoWorker)

\* C34: every convert / convert-batch command carries a quality within
\* [1, 100] and a lower-case target type of the accepted set, whatever the
\* caller's options were.
C34_NormalizedCommand ==
    \A i \in 1..Len(so.commands) :
        /\ so.commands[i].quality >= 1
        /\ so.commands[i].quality <= 100
        /\ so.commands[i].targetType \in validTargetTypes

\* The ids of the items of the simple queue in state PROCESSING.
SimpleProcessing ==
    {sq.queue[i].id : i \in {j \in 1..Len(sq.queue) : sq.queue[j].state = "PROCESSING"}}

\* C35: in the simple queue at most maxConcurrent items are PROCESSING and
\* activeConversions holds exactly those items.
C35_SimpleConcurrency ==
    sq.constructed =>
        /\ Cardinality(SimpleProcessing) <= sq.maxConcurrent
        /\ sq.activeConversions = SimpleProcessing

\* The processQueue runs whose task function is executing.
RunningTasks == {r \in 1..Len(mm.runs) : mm.runs[r].pc = "task"}

\* C36: the conversions given to queueConversion run one at a time and in
\* submission order, each is started at most once, and none that has not
\* settled is dropped: it is still queued or has the run that will settle it.
C36_OneAtATime ==
    /\ Cardinality(RunningTasks) <= 1
    /\ \A c \in Conversions :
          /\ mm.started[c] <= 1
          /\ mm.started[c] > 0 =>
                \A d \in 1..(c - 1) : mm.settled[d] \in {"resolved", "rejected"}
          /\ mm.settled[c] = "pending" =>
                \/ InSeq(mm.conversionQueue, c)
                \/ \E r \in 1..Len(mm.runs) : mm.runs[r].item = c

\* C37: activeOperations of the ChunkedProcessor stays within
\* [0, maxConcurrent] and equals the number of processItem calls in flight,
\* across concurrent processInChunks calls and calls to dispose().
ItemsInFlight == {i \in 1..Len(cp.items) : cp.items[i].pc # "done"}

C37_ActiveOperations ==
    cp.instance =>
        /\ cp.activeOperations >= 0
        /\ cp.activeOperations <= cp.maxConcurrent
        /\ cp.activeOperations = Cardinality(ItemsInFlight)

\* C38: once every processFiles call in flight has returned, chunkSize is
\* back to the value it had before the first of them started.
C38_ChunkSizeRestored ==
    (/\ \E c \in 1..Len(cp.calls) : cp.calls[c].kind = "files"
     /\ FilesInFlight(cp) = {})
        => cp.chunkSize = cp.before

\* C39: after any sequence of registerBlob, unregisterBlob, createObjectURL,
\* triggerCleanup and cleanup calls, currentMemoryEstimate equals the sum of
\* the sizes of the blobs in activeBlobs and is never negative.
C39_EstimateIsSum ==
    /\ mm.currentMemoryEstimate = sizeOf(mm.activeBlobs)
    /\ mm.currentMemoryEstimate >= 0

====
